---- MODULE Spec2Model ----
(***************************************************************************)
(* A model of the s3client shell (sbreitf1/s3client): the session state    *)
(* (currentBucket, currentPrefix), the object store behind minioClient,    *)
(* and the command handlers of cmd/s3client/commands.go.                   *)
(*                                                                         *)
(* Strings are sequences of one-character strings, so that the string      *)
(* operations of the handlers (HasSuffix, TrimRight, Split, Join, slicing)  *)
(* are computed as the code computes them.                                  *)
(***************************************************************************)
EXTENDS Integers, Sequences, FiniteSets, TLC

VARIABLES
    pc,             \* position of main(): "connect", "default", "ready", "done", "exit"
    oneShot,        \* main(): len(args) > 0, a command was given on the command line
    defaultBucket,  \* target.DefaultBucket
    sourceFile,     \* len(target.SourceFile) > 0
    exitCode,       \* status of os.Exit, -1 while the process runs
    currentBucket,  \* the session's bucket, "" at root
    currentPrefix,  \* the session's prefix
    bkts,           \* the store: the set of existing bucket names
    objs,           \* the store: <<bucket, key>> -> content (its length is its size)
    muts,           \* number of commands so far that changed the store
    cmd,            \* the command being executed: verb, args, the lines it read
    pre,            \* session and store when the command started
    calls,          \* the store calls the command issued, in order
    out,            \* the lines the command printed, in order
    err,            \* the error the command returned, "" for nil
    listing,        \* the enumeration of minioClient.ListObjectsV2 a handler consumes
    rd,             \* readCmd(): the input it reads and the locals of its tokenizer
    nf,             \* find's nameFormatter: its arguments and the locals of its loop
    osArgs          \* os.Args as readArgs reads it, empty where main is followed from connect on

vars == <<pc, oneShot, defaultBucket, sourceFile, exitCode, currentBucket,
          currentPrefix, bkts, objs, muts, cmd, pre, calls, out, err, listing, rd, nf, osArgs>>

(***************************************************************************)
(* Bounds of the model.                                                    *)
(***************************************************************************)
\* commands of one session that may change the store
MaxMutations == 1
\* longest object key a command may create
MaxKeyLen == 5

(***************************************************************************)
(* Strings.                                                                *)
(***************************************************************************)
Sep == "/"
Str(c) == <<c>>
EmptyStr == <<>>
DotDot == <<".", ".">>
FlagR == <<"-", "r">>
DELETE == <<"D", "E", "L", "E", "T", "E">>
WordBucket == <<"b", "u", "c", "k", "e", "t">>
WordBuckets == <<"b", "u", "c", "k", "e", "t", "s">>

\* byte order of the characters the model uses
Ord(c) ==
    CASE c = "\n" -> 10
      [] c = "-" -> 45
      [] c = "." -> 46
      [] c = "/" -> 47
      [] c = "1" -> 49
      [] c = "2" -> 50
      [] c = "D" -> 68
      [] c = "E" -> 69
      [] c = "L" -> 76
      [] c = "T" -> 84
      [] c = "p" -> 112
      [] c = "q" -> 113
      [] c = "r" -> 114
      [] c = "x" -> 120
      [] c = "y" -> 121
      [] c = "z" -> 122

RECURSIVE StrLess(_, _)
StrLess(a, b) ==
    IF b = <<>> THEN FALSE
    ELSE IF a = <<>> THEN TRUE
    ELSE IF a[1] = b[1] THEN StrLess(Tail(a), Tail(b))
    ELSE Ord(a[1]) < Ord(b[1])

HasPrefix(s, p) == Len(p) <= Len(s) /\ SubSeq(s, 1, Len(p)) = p
HasSuffix(s, p) == Len(p) <= Len(s) /\ SubSeq(s, Len(s) - Len(p) + 1, Len(s)) = p
\* s[n:] of the code, n a byte offset
From(s, n) == SubSeq(s, n + 1, Len(s))

RECURSIVE TrimRight(_, _)
TrimRight(s, c) ==
    IF s # <<>> /\ s[Len(s)] = c THEN TrimRight(SubSeq(s, 1, Len(s) - 1), c) ELSE s

RECURSIVE Split(_, _)
Split(s, c) ==
    IF \E i \in 1..Len(s) : s[i] = c
    THEN LET i == CHOOSE j \in 1..Len(s) : s[j] = c /\ \A k \in 1..(j - 1) : s[k] # c
         IN  <<SubSeq(s, 1, i - 1)>> \o Split(SubSeq(s, i + 1, Len(s)), c)
    ELSE <<s>>

RECURSIVE Join(_, _)
Join(parts, c) ==
    IF parts = <<>> THEN <<>>
    ELSE IF Len(parts) = 1 THEN parts[1]
    ELSE parts[1] \o <<c>> \o Join(Tail(parts), c)

(***************************************************************************)
(* The object store behind minioClient (github.com/minio/minio-go).        *)
(***************************************************************************)
\* the keys of S in ascending byte order
SortKeys(S) ==
    [i \in 1..Cardinality(S) |->
        CHOOSE k \in S : Cardinality({o \in S : StrLess(o, k)}) = i - 1]

KeysOf(ob, b) == {x[2] : x \in {y \in DOMAIN ob : y[1] = b}}
Put(ob, b, k, c) == (<<b, k>> :> c) @@ ob
Del(ob, b, k) == [x \in (DOMAIN ob) \ {<<b, k>>} |-> ob[x]]
DropBucket(ob, b) == [x \in {y \in DOMAIN ob : y[1] # b} |-> ob[x]]

Entry(k, size) == [Key |-> k, Size |-> size, Err |-> FALSE]
ErrEntry == [Key |-> <<>>, Size |-> 0, Err |-> TRUE]

\* the part of key k behind the prefix, up to and including the first separator
FirstSegment(k, prefix) ==
    LET rest == From(k, Len(prefix))
        i == CHOOSE j \in 1..Len(rest) : rest[j] = Sep /\ \A n \in 1..(j - 1) : rest[n] # Sep
    IN  prefix \o SubSeq(rest, 1, i)

HasSep(s) == \E i \in 1..Len(s) : s[i] = Sep

\* what the channel of ListObjectsV2(bucket, prefix, recursive, doneCh) delivers
\* when the store answers: recursive, every object under the prefix in key
\* order; shallow (delimiter "/"), the objects directly under the prefix and
\* then one entry of size 0 per common prefix
ListObjectsV2(ob, bk, b, prefix, recursive) ==
    IF b \notin bk THEN <<ErrEntry>>
    ELSE LET under == {k \in KeysOf(ob, b) : HasPrefix(k, prefix)}
             direct == {k \in under : ~HasSep(From(k, Len(prefix)))}
             common == {FirstSegment(k, prefix) : k \in under \ direct}
             contents == IF recursive THEN SortKeys(under) ELSE SortKeys(direct)
             prefixes == IF recursive THEN <<>> ELSE SortKeys(common)
         IN  [i \in 1..Len(contents) |-> Entry(contents[i], ob[<<b, contents[i]>>])]
             \o [i \in 1..Len(prefixes) |-> Entry(prefixes[i], 0)]

\* a fault of the store: the i-th item of the listing "at" is an error item, or
\* the i-th call of kind "at" returns an error
Flt(at, i) == [at |-> at, i |-> i]
NoFault == Flt("none", 0)

\* the items a consumer receives from a listing under fault flt
Deliver(L, flt, at) ==
    IF flt.at = at /\ flt.i >= 1 /\ flt.i <= Len(L) + 1
    THEN SubSeq(L, 1, flt.i - 1) \o <<ErrEntry>>
    ELSE L

\* one store call in the record of a command
Call(op, b, k, dst, ok) == [op |-> op, bucket |-> b, key |-> k, dst |-> dst, ok |-> ok]
Mutating(c) == c.op \in {"RemoveObject", "CopyObject", "PutObject", "FPutObject",
                        "MakeBucket", "RemoveBucket"}

\* one printed line: the message, the name it mentions, a count and a byte total
Line(msg, name, n, bytes) == [msg |-> msg, name |-> name, n |-> n, bytes |-> bytes]
Say(msg) == Line(msg, <<>>, 0, 0)
Named(msg, name) == Line(msg, name, 0, 0)

\* what a handler leaves behind: session, store, its calls, its output, its error
Res(b, p, bk, ob, cl, o, e) ==
    [bucket |-> b, prefix |-> p, bkts |-> bk, objs |-> ob, calls |-> cl, out |-> o, err |-> e]
\* the lines a handler read from the console, the first n of those typed
Consumed(raws, n) == SubSeq(raws, 1, n)
\* a handler returning e after calls cl and output o, session and store as they were
Keep(cl, o, e) == Res(currentBucket, currentPrefix, bkts, objs, cl, o, e)

(***************************************************************************)
(* common helper (commands.go:773-849)                                     *)
(***************************************************************************)
\* a checkArgs without the upper limit on the number of arguments
checkArgsNoMax(args, ArgLabels, MinArgs, RequireBucket) ==
    IF RequireBucket /\ Len(currentBucket) = 0 THEN "no bucket entered"
    ELSE IF Len(args) < MinArgs THEN "missing parameter"
    ELSE ""

checkArgs(args, ArgLabels, MinArgs, RequireBucket) ==
    IF RequireBucket /\ Len(currentBucket) = 0 THEN "no bucket entered"
    ELSE IF Len(args) < MinArgs THEN "missing parameter"
    ELSE IF Len(args) > Len(ArgLabels) THEN "too many arguments"
    ELSE ""

\* a stat loop that goes through the whole listing and notes every match
statLoopAll(items, i, dirKey, fileKey) ==
    IF \E j \in 1..Len(items) : items[j].Err
    THEN [isFile |-> FALSE, isDir |-> FALSE, fileSize |-> 0, err |-> "failed to access object"]
    ELSE [isFile |-> \E j \in 1..Len(items) : items[j].Key = fileKey,
          isDir |-> \E j \in 1..Len(items) : items[j].Key = dirKey,
          fileSize |-> 0, err |-> ""]

RECURSIVE statLoop(_, _, _, _)
statLoop(items, i, dirKey, fileKey) ==
    IF i > Len(items) THEN [isFile |-> FALSE, isDir |-> FALSE, fileSize |-> 0, err |-> ""]
    ELSE IF items[i].Err
         THEN [isFile |-> FALSE, isDir |-> FALSE, fileSize |-> 0, err |-> "failed to access object"]
    ELSE IF items[i].Key = dirKey
         THEN [isFile |-> FALSE, isDir |-> TRUE, fileSize |-> 0, err |-> ""]
    ELSE IF items[i].Key = fileKey
         THEN [isFile |-> TRUE, isDir |-> FALSE, fileSize |-> items[i].Size, err |-> ""]
    ELSE statLoop(items, i + 1, dirKey, fileKey)

\* a stat that lists with the key as it was given
statKeyRaw(key) == key

statKey(key) == IF HasSuffix(key, <<Sep>>) THEN SubSeq(key, 1, Len(key) - 1) ELSE key

\* a stat that lists recursively: only a marker object makes a directory
statInRecursive(ob, bk, b, key, flt) ==
    LET k == statKey(key)
        items == Deliver(ListObjectsV2(ob, bk, b, k, TRUE), flt, "stat")
        r == statLoop(items, 1, k \o <<Sep>>, k)
    IN  [isFile |-> r.isFile, isDir |-> r.isDir, fileSize |-> r.fileSize, err |-> r.err,
         call |-> Call("ListObjectsV2", b, k, <<>>, r.err = "")]

\* stat(key) against store (ob, bk) with bucket b entered
statIn(ob, bk, b, key, flt) ==
    LET k == statKey(key)
        items == Deliver(ListObjectsV2(ob, bk, b, k, FALSE), flt, "stat")
        r == statLoop(items, 1, k \o <<Sep>>, k)
    IN  [isFile |-> r.isFile, isDir |-> r.isDir, fileSize |-> r.fileSize, err |-> r.err,
         call |-> Call("ListObjectsV2", b, k, <<>>, r.err = "")]

stat(key, flt) == statIn(objs, bkts, currentBucket, key, flt)

(***************************************************************************)
(* Navigation (commands.go:39-109)                                         *)
(***************************************************************************)
\* enter that switches the bucket before it knows the bucket exists
enterUnchecked(args, flt) ==
    LET ca == checkArgs(args, <<"bucket name">>, 1, FALSE)
    IN  IF ca # "" THEN Keep(<<>>, <<>>, ca)
        ELSE IF flt.at = "exists"
             THEN Keep(<<Call("BucketExists", args[1], <<>>, <<>>, FALSE)>>, <<>>, "store error")
        ELSE IF args[1] \notin bkts
             THEN Res(args[1], <<>>, bkts, objs,
                      <<Call("BucketExists", args[1], <<>>, <<>>, TRUE)>>, <<>>,
                      "bucket does not exist")
        ELSE Res(args[1], <<>>, bkts, objs,
                 <<Call("BucketExists", args[1], <<>>, <<>>, TRUE)>>, <<>>, "")

enter(args, flt) ==
    LET ca == checkArgs(args, <<"bucket name">>, 1, FALSE)
    IN  IF ca # "" THEN Keep(<<>>, <<>>, ca)
        ELSE IF flt.at = "exists"
             THEN Keep(<<Call("BucketExists", args[1], <<>>, <<>>, FALSE)>>, <<>>, "store error")
        ELSE IF args[1] \notin bkts
             THEN Keep(<<Call("BucketExists", args[1], <<>>, <<>>, TRUE)>>, <<>>,
                       "bucket does not exist")
        ELSE Res(args[1], <<>>, bkts, objs,
                 <<Call("BucketExists", args[1], <<>>, <<>>, TRUE)>>, <<>>, "")

\* leave that does not ask for a bucket to be entered
leaveAnywhere(args) ==
    LET ca == checkArgs(args, <<>>, 0, FALSE)
    IN  IF ca # "" THEN Keep(<<>>, <<>>, ca)
        ELSE Res(<<>>, <<>>, bkts, objs, <<>>, <<>>, "")

\* leave that forgets the prefix of the bucket it leaves
leaveKeepsPrefix(args) ==
    LET ca == checkArgs(args, <<>>, 0, TRUE)
    IN  IF ca # "" THEN Keep(<<>>, <<>>, ca)
        ELSE Res(<<>>, currentPrefix, bkts, objs, <<>>, <<>>, "")

leave(args) ==
    LET ca == checkArgs(args, <<>>, 0, TRUE)
    IN  IF ca # "" THEN Keep(<<>>, <<>>, ca)
        ELSE Res(<<>>, <<>>, bkts, objs, <<>>, <<>>, "")

\* cd ".." that splits the prefix with its trailing separator still on it
parentPrefixUntrimmed(p) ==
    LET parts == Split(p, Sep)
    IN  IF Len(parts) > 1
        THEN Join(SubSeq(parts, 1, Len(parts) - 1), Sep) \o <<Sep>>
        ELSE <<>>

\* cd ".." that drops the prefix altogether
parentPrefixRoot(p) == <<>>

\* the prefix after cd ".."
parentPrefix(p) ==
    LET prefix == TrimRight(p, Sep)
        parts == Split(prefix, Sep)
    IN  IF Len(parts) > 1
        THEN Join(SubSeq(parts, 1, Len(parts) - 1), Sep) \o <<Sep>>
        ELSE <<>>

\* cd name that appends the name without the separator
childPrefixNoSep(p, name) == p \o name

\* the prefix after a successful cd name
childPrefix(p, name) == p \o name \o <<Sep>>

\* cd that treats a name at the root like a directory name
cdNoDelegate(args, flt) ==
    LET ca == checkArgs(args, <<"dir name">>, 1, FALSE)
    IN  IF ca # "" THEN Keep(<<>>, <<>>, ca)
        ELSE IF args[1] = DotDot
             THEN Res(currentBucket, parentPrefix(currentPrefix), bkts, objs, <<>>, <<>>, "")
        ELSE LET st == stat(currentPrefix \o args[1], flt)
             IN  IF st.err # "" THEN Keep(<<st.call>>, <<>>, st.err)
                 ELSE IF st.isFile THEN Keep(<<st.call>>, <<>>, "is a file")
                 ELSE IF ~st.isDir THEN Keep(<<st.call>>, <<>>, "directory not found")
                 ELSE Res(currentBucket, childPrefix(currentPrefix, args[1]), bkts, objs,
                          <<st.call>>, <<>>, "")

\* cd that enters whatever is not a file
cdUnchecked(args, flt) ==
    LET ca == checkArgs(args, <<"dir name">>, 1, FALSE)
    IN  IF ca # "" THEN Keep(<<>>, <<>>, ca)
        ELSE IF Len(currentBucket) = 0
             THEN LET r == enter(<<args[1]>>, flt)
                  IN  [r EXCEPT !.out = <<Named("No bucket entered yet. Entering bucket instead", args[1])>>]
        ELSE IF args[1] = DotDot
             THEN Res(currentBucket, parentPrefix(currentPrefix), bkts, objs, <<>>, <<>>, "")
        ELSE LET st == stat(currentPrefix \o args[1], flt)
             IN  IF st.err # "" THEN Keep(<<st.call>>, <<>>, st.err)
                 ELSE IF st.isFile THEN Keep(<<st.call>>, <<>>, "is a file")
                 ELSE Res(currentBucket, childPrefix(currentPrefix, args[1]), bkts, objs,
                          <<st.call>>, <<>>, "")

cd(args, flt) ==
    LET ca == checkArgs(args, <<"dir name">>, 1, FALSE)
    IN  IF ca # "" THEN Keep(<<>>, <<>>, ca)
        ELSE IF Len(currentBucket) = 0
             THEN LET r == enter(<<args[1]>>, flt)
                  IN  [r EXCEPT !.out = <<Named("No bucket entered yet. Entering bucket instead", args[1])>>]
        ELSE IF args[1] = DotDot
             THEN Res(currentBucket, parentPrefix(currentPrefix), bkts, objs, <<>>, <<>>, "")
        ELSE LET st == stat(currentPrefix \o args[1], flt)
             IN  IF st.err # "" THEN Keep(<<st.call>>, <<>>, st.err)
                 ELSE IF st.isFile THEN Keep(<<st.call>>, <<>>, "is a file")
                 ELSE IF ~st.isDir THEN Keep(<<st.call>>, <<>>, "directory not found")
                 ELSE Res(currentBucket, childPrefix(currentPrefix, args[1]), bkts, objs,
                          <<st.call>>, <<>>, "")

(***************************************************************************)
(* rm (commands.go:135-185)                                                *)
(***************************************************************************)
\* a prefix left as it was given, without the separator
withSepMissing(prefix) == prefix

\* prefix with a separator appended unless it ends with one
withSep(prefix) == IF HasSuffix(prefix, <<Sep>>) THEN prefix ELSE prefix \o <<Sep>>

\* a loop of rm -r that skips an object it could not remove and goes on
RECURSIVE rmLoopSkipping(_, _, _, _, _, _, _)
rmLoopSkipping(items, i, prefix, ob, cl, o, flt) ==
    IF i > Len(items) THEN Res(currentBucket, currentPrefix, bkts, ob, cl, o, "")
    ELSE IF items[i].Err
         THEN Res(currentBucket, currentPrefix, bkts, ob, cl, o, "failed to access object")
    ELSE IF flt.at = "op" /\ flt.i = i
         THEN rmLoopSkipping(items, i + 1, prefix, ob,
                  Append(cl, Call("RemoveObject", currentBucket, items[i].Key, <<>>, FALSE)),
                  o, flt)
    ELSE rmLoopSkipping(items, i + 1, prefix, Del(ob, currentBucket, items[i].Key),
                Append(cl, Call("RemoveObject", currentBucket, items[i].Key, <<>>, TRUE)),
                Append(o, Named("object has been deleted", From(items[i].Key, Len(prefix)))),
                flt)

\* the loop of rm -r over the listing: item i, after i - 1 removals
RECURSIVE rmLoop(_, _, _, _, _, _, _)
rmLoop(items, i, prefix, ob, cl, o, flt) ==
    IF i > Len(items) THEN Res(currentBucket, currentPrefix, bkts, ob, cl, o, "")
    ELSE IF items[i].Err
         THEN Res(currentBucket, currentPrefix, bkts, ob, cl, o, "failed to access object")
    ELSE IF flt.at = "op" /\ flt.i = i
         THEN Res(currentBucket, currentPrefix, bkts, ob,
                  Append(cl, Call("RemoveObject", currentBucket, items[i].Key, <<>>, FALSE)),
                  o, "store error")
    ELSE rmLoop(items, i + 1, prefix, Del(ob, currentBucket, items[i].Key),
                Append(cl, Call("RemoveObject", currentBucket, items[i].Key, <<>>, TRUE)),
                Append(o, Named("object has been deleted", From(items[i].Key, Len(prefix)))),
                flt)

\* rm that takes any second argument for the flag
missingFlagAny(args) == Len(args) < 2

\* rm: the arguments do not ask for a recursive removal
missingFlagR(args) == Len(args) < 2 \/ args[2] # FlagR

rm(args, flt) ==
    LET ca == checkArgs(args, <<"object name", "arg">>, 1, TRUE)
    IN  IF ca # "" THEN Keep(<<>>, <<>>, ca)
        ELSE
        LET prefix == currentPrefix \o args[1]
            st == stat(prefix, flt)
        IN  IF st.err # "" THEN Keep(<<st.call>>, <<>>, st.err)
            ELSE IF st.isFile
                 THEN IF flt.at = "op" /\ flt.i = 1
                      THEN Keep(<<st.call, Call("RemoveObject", currentBucket, prefix, <<>>, FALSE)>>,
                                <<>>, "store error")
                      ELSE Res(currentBucket, currentPrefix, bkts, Del(objs, currentBucket, prefix),
                               <<st.call, Call("RemoveObject", currentBucket, prefix, <<>>, TRUE)>>,
                               <<Named("Object has been deleted", args[1])>>, "")
            ELSE IF st.isDir
                 THEN IF missingFlagR(args)
                      THEN Keep(<<st.call>>, <<>>, "please use rm -r")
                      ELSE LET dir == withSep(prefix)
                               L == ListObjectsV2(objs, bkts, currentBucket, dir, TRUE)
                               items == Deliver(L, flt, "list")
                           IN  rmLoop(items, 1, dir, objs,
                                      <<st.call, Call("ListObjectsV2", currentBucket, dir, <<>>,
                                                      \A j \in 1..Len(items) : ~items[j].Err)>>,
                                      <<>>, flt)
            ELSE Keep(<<st.call>>, <<>>, "object does not exist")

(***************************************************************************)
(* mv and cp (commands.go:352-534)                                         *)
(***************************************************************************)
\* the longest object name minio.NewDestinationInfo accepts: 1024 bytes in
\* minio-go, here in the scale of the model's keys
MaxObjectNameLen == 5

\* minio.NewDestinationInfo rejects an empty object name and one that is too long
NewDestinationInfoErr(key) == Len(key) = 0 \/ Len(key) > MaxObjectNameLen

\* the items of a listing collected into a list: the loop returns at the first
\* error item
hasErr(items) == \E j \in 1..Len(items) : items[j].Err

sumSizes(items, n) ==
    LET RECURSIVE sum(_)
        sum(j) == IF j = 0 THEN 0 ELSE sum(j - 1) + items[j].Size
    IN  sum(n)

completed(list, totalLen) ==
    IF Len(list) = 1 THEN Line("Completed (file)", <<>>, 1, totalLen)
    ELSE Line("Completed (files)", <<>>, Len(list), totalLen)

\* a destination key that keeps the source prefix
destKeyWhole(prefixDst, prefixSrc, key) == prefixDst \o key

\* the destination key of a listed object: its key with the source prefix
\* replaced by the destination prefix
destKey(prefixDst, prefixSrc, key) == prefixDst \o From(key, Len(prefixSrc))

\* a loop of mv that removes the source although its copy failed
RECURSIVE mvLoopRemoving(_, _, _, _, _, _, _, _)
mvLoopRemoving(list, i, prefixSrc, prefixDst, ob, cl, o, flt) ==
    IF i > Len(list)
    THEN Res(currentBucket, currentPrefix, bkts, ob, cl,
             Append(o, completed(list, sumSizes(list, Len(list)))), "")
    ELSE
    LET rel == From(list[i].Key, Len(prefixSrc))
        dstKey == destKey(prefixDst, prefixSrc, list[i].Key)
        o1 == Append(o, Named("Move file", rel))
        copyFails == (flt.at = "op" /\ flt.i = 2 * i - 1) \/ <<currentBucket, list[i].Key>> \notin DOMAIN ob
        copy == Call("CopyObject", currentBucket, list[i].Key, dstKey, ~copyFails)
        ob1 == IF copyFails THEN ob
               ELSE Put(ob, currentBucket, dstKey, ob[<<currentBucket, list[i].Key>>])
    IN  IF NewDestinationInfoErr(dstKey)
        THEN Res(currentBucket, currentPrefix, bkts, ob, cl, o1, "invalid destination")
        ELSE IF flt.at = "op" /\ flt.i = 2 * i
        THEN Res(currentBucket, currentPrefix, bkts, ob1,
                 cl \o <<copy, Call("RemoveObject", currentBucket, list[i].Key, <<>>, FALSE)>>,
                 o1, "failed to delete previous file")
        ELSE mvLoopRemoving(list, i + 1, prefixSrc, prefixDst, Del(ob1, currentBucket, list[i].Key),
                    cl \o <<copy, Call("RemoveObject", currentBucket, list[i].Key, <<>>, TRUE)>>,
                    o1, flt)

\* the loop of mv over the collected list: object i; the copy of object i is
\* the store's (2i-1)-th call of the loop and its removal the (2i)-th
RECURSIVE mvLoop(_, _, _, _, _, _, _, _)
mvLoop(list, i, prefixSrc, prefixDst, ob, cl, o, flt) ==
    IF i > Len(list)
    THEN Res(currentBucket, currentPrefix, bkts, ob, cl,
             Append(o, completed(list, sumSizes(list, Len(list)))), "")
    ELSE
    LET rel == From(list[i].Key, Len(prefixSrc))
        dstKey == destKey(prefixDst, prefixSrc, list[i].Key)
        o1 == Append(o, Named("Move file", rel))
        copyFails == (flt.at = "op" /\ flt.i = 2 * i - 1) \/ <<currentBucket, list[i].Key>> \notin DOMAIN ob
        copy == Call("CopyObject", currentBucket, list[i].Key, dstKey, ~copyFails)
        ob1 == Put(ob, currentBucket, dstKey, ob[<<currentBucket, list[i].Key>>])
    IN  IF NewDestinationInfoErr(dstKey)
        THEN Res(currentBucket, currentPrefix, bkts, ob, cl, o1, "invalid destination")
        ELSE IF copyFails
        THEN Res(currentBucket, currentPrefix, bkts, ob, Append(cl, copy), o1, "failed to copy file")
        ELSE IF flt.at = "op" /\ flt.i = 2 * i
        THEN Res(currentBucket, currentPrefix, bkts, ob1,
                 cl \o <<copy, Call("RemoveObject", currentBucket, list[i].Key, <<>>, FALSE)>>,
                 o1, "failed to delete previous file")
        ELSE mvLoop(list, i + 1, prefixSrc, prefixDst, Del(ob1, currentBucket, list[i].Key),
                    cl \o <<copy, Call("RemoveObject", currentBucket, list[i].Key, <<>>, TRUE)>>,
                    o1, flt)

\* the loop of cp over the collected list: the copy of object i is the
\* store's i-th call of the loop
RECURSIVE cpLoop(_, _, _, _, _, _, _, _)
cpLoop(list, i, prefixSrc, prefixDst, ob, cl, o, flt) ==
    IF i > Len(list)
    THEN Res(currentBucket, currentPrefix, bkts, ob, cl,
             Append(o, completed(list, sumSizes(list, Len(list)))), "")
    ELSE
    LET rel == From(list[i].Key, Len(prefixSrc))
        dstKey == destKey(prefixDst, prefixSrc, list[i].Key)
        o1 == Append(o, Named("Copy file", rel))
        copyFails == (flt.at = "op" /\ flt.i = i) \/ <<currentBucket, list[i].Key>> \notin DOMAIN ob
        copy == Call("CopyObject", currentBucket, list[i].Key, dstKey, ~copyFails)
    IN  IF NewDestinationInfoErr(dstKey)
        THEN Res(currentBucket, currentPrefix, bkts, ob, cl, o1, "invalid destination")
        ELSE IF copyFails
        THEN Res(currentBucket, currentPrefix, bkts, ob, Append(cl, copy), o1, "failed to copy file")
        ELSE cpLoop(list, i + 1, prefixSrc, prefixDst,
                    Put(ob, currentBucket, dstKey, ob[<<currentBucket, list[i].Key>>]),
                    Append(cl, copy), o1, flt)

mv(args, flt) ==
    LET ca == checkArgs(args, <<"source", "destination">>, 2, TRUE)
    IN  IF ca # "" THEN Keep(<<>>, <<>>, ca)
        ELSE
        LET srcKey == currentPrefix \o args[1]
            dstKey == currentPrefix \o args[2]
            st == stat(srcKey, flt)
            copyFails == flt.at = "op" /\ flt.i = 1
            copy == Call("CopyObject", currentBucket, srcKey, dstKey, ~copyFails)
            ob1 == Put(objs, currentBucket, dstKey, objs[<<currentBucket, srcKey>>])
            prefixSrc == withSep(srcKey)
            prefixDst == withSep(dstKey)
            items == Deliver(ListObjectsV2(objs, bkts, currentBucket, prefixSrc, TRUE), flt, "list")
            lcall == Call("ListObjectsV2", currentBucket, prefixSrc, <<>>, ~hasErr(items))
        IN  IF st.err # "" THEN Keep(<<st.call>>, <<>>, st.err)
            ELSE IF st.isFile
            THEN IF NewDestinationInfoErr(dstKey) THEN Keep(<<st.call>>, <<>>, "invalid destination")
                 ELSE IF copyFails THEN Keep(<<st.call, copy>>, <<>>, "failed to clone object")
                 ELSE IF flt.at = "op" /\ flt.i = 2
                 THEN Res(currentBucket, currentPrefix, bkts, ob1,
                          <<st.call, copy, Call("RemoveObject", currentBucket, srcKey, <<>>, FALSE)>>,
                          <<>>, "unable to delete old object")
                 ELSE Res(currentBucket, currentPrefix, bkts, Del(ob1, currentBucket, srcKey),
                          <<st.call, copy, Call("RemoveObject", currentBucket, srcKey, <<>>, TRUE)>>,
                          <<Say("Object has been moved")>>, "")
            ELSE IF st.isDir
            THEN IF hasErr(items) THEN Keep(<<st.call, lcall>>, <<>>, "failed to access object")
                 ELSE IF Len(items) = 0
                 THEN Keep(<<st.call, lcall>>, <<Say("Directory is empty")>>, "")
                 ELSE mvLoop(items, 1, prefixSrc, prefixDst, objs, <<st.call, lcall>>, <<>>, flt)
            ELSE Keep(<<st.call>>, <<>>, "object does not exist")

cp(args, flt) ==
    LET ca == checkArgs(args, <<"source", "destination">>, 2, TRUE)
    IN  IF ca # "" THEN Keep(<<>>, <<>>, ca)
        ELSE
        LET srcKey == currentPrefix \o args[1]
            dstKey == currentPrefix \o args[2]
            st == stat(srcKey, flt)
            copyFails == flt.at = "op" /\ flt.i = 1
            copy == Call("CopyObject", currentBucket, srcKey, dstKey, ~copyFails)
            prefixSrc == withSep(srcKey)
            prefixDst == withSep(dstKey)
            items == Deliver(ListObjectsV2(objs, bkts, currentBucket, prefixSrc, TRUE), flt, "list")
            lcall == Call("ListObjectsV2", currentBucket, prefixSrc, <<>>, ~hasErr(items))
        IN  IF st.err # "" THEN Keep(<<st.call>>, <<>>, st.err)
            ELSE IF st.isFile
            THEN IF NewDestinationInfoErr(dstKey) THEN Keep(<<st.call>>, <<>>, "invalid destination")
                 ELSE IF copyFails THEN Keep(<<st.call, copy>>, <<>>, "failed to clone object")
                 ELSE Res(currentBucket, currentPrefix, bkts,
                          Put(objs, currentBucket, dstKey, objs[<<currentBucket, srcKey>>]),
                          <<st.call, copy>>, <<Say("Object has been copied")>>, "")
            ELSE IF st.isDir
            THEN IF hasErr(items) THEN Keep(<<st.call, lcall>>, <<>>, "failed to access object")
                 ELSE IF Len(items) = 0
                 THEN Keep(<<st.call, lcall>>, <<Say("Directory is empty")>>, "")
                 ELSE cpLoop(items, 1, prefixSrc, prefixDst, objs, <<st.call, lcall>>, <<>>, flt)
            ELSE Keep(<<st.call>>, <<>>, "object does not exist")

(***************************************************************************)
(* dl, ul, touch, cat (commands.go:187-350, 536-591)                       *)
(***************************************************************************)
\* a loop of dl that prints the summary of the files it got when it aborts
RECURSIVE dlLoopSummary(_, _, _, _, _, _)
dlLoopSummary(list, i, prefix, cl, o, flt) ==
    IF i > Len(list)
    THEN Keep(cl, Append(o, completed(list, sumSizes(list, Len(list)))), "")
    ELSE
    LET o1 == Append(o, Named("downloading file", From(list[i].Key, Len(prefix))))
        fails == flt.at = "op" /\ flt.i = i
        get == Call("GetObject", currentBucket, list[i].Key, <<>>, ~fails)
    IN  IF fails
        THEN Keep(Append(cl, get),
                  Append(o1, completed(SubSeq(list, 1, i - 1), sumSizes(list, i - 1))),
                  "store error")
        ELSE dlLoopSummary(list, i + 1, prefix, Append(cl, get), o1, flt)

\* the loop of dl over the collected list: downloadObject of object i is the
\* i-th call of the loop
RECURSIVE dlLoop(_, _, _, _, _, _)
dlLoop(list, i, prefix, cl, o, flt) ==
    IF i > Len(list)
    THEN Keep(cl, Append(o, completed(list, sumSizes(list, Len(list)))), "")
    ELSE
    LET o1 == Append(o, Named("downloading file", From(list[i].Key, Len(prefix))))
        fails == flt.at = "op" /\ flt.i = i
        get == Call("GetObject", currentBucket, list[i].Key, <<>>, ~fails)
    IN  IF fails THEN Keep(Append(cl, get), o1, "store error")
        ELSE dlLoop(list, i + 1, prefix, Append(cl, get), o1, flt)

dl(args, flt) ==
    LET ca == checkArgs(args, <<"source", "destination">>, 2, TRUE)
    IN  IF ca # "" THEN Keep(<<>>, <<>>, ca)
        ELSE
        LET objKey == currentPrefix \o args[1]
            st == stat(objKey, flt)
            fails == flt.at = "op" /\ flt.i = 1
            get == Call("GetObject", currentBucket, objKey, <<>>, ~fails)
            prefix == withSep(objKey)
            items == Deliver(ListObjectsV2(objs, bkts, currentBucket, prefix, TRUE), flt, "list")
            lcall == Call("ListObjectsV2", currentBucket, prefix, <<>>, ~hasErr(items))
        IN  IF st.err # "" THEN Keep(<<st.call>>, <<>>, st.err)
            ELSE IF st.isFile
            THEN IF fails THEN Keep(<<st.call, get>>, <<Named("Source Object", objKey)>>, "store error")
                 ELSE Keep(<<st.call, get>>,
                           <<Named("Source Object", objKey),
                             Line("Completed", <<>>, 0, objs[<<currentBucket, objKey>>])>>, "")
            ELSE IF st.isDir
            THEN IF hasErr(items)
                 THEN Keep(<<st.call, lcall>>, <<Named("Source directory", objKey)>>,
                           "failed to access object")
                 ELSE IF Len(items) = 0
                 THEN Keep(<<st.call, lcall>>,
                           <<Named("Source directory", objKey), Say("Directory is empty")>>, "")
                 ELSE dlLoop(items, 1, prefix, <<st.call, lcall>>,
                             <<Named("Source directory", objKey)>>, flt)
            ELSE Keep(<<st.call>>, <<>>, "object does not exist")

\* the walk of ul over a local directory: file i of the walk is uploaded by
\* the i-th call; walk[i] is the file's path below the directory and its size
RECURSIVE ulWalk(_, _, _, _, _, _, _)
ulWalk(walk, i, prefix, ob, cl, o, flt) ==
    IF i > Len(walk)
    THEN Res(currentBucket, currentPrefix, bkts, ob, cl,
             Append(o, Line("Completed", <<>>, 0, sumSizes(walk, Len(walk)))), "")
    ELSE
    LET key == prefix \o walk[i].Key
        o1 == Append(o, Named("upload", key))
        fails == flt.at = "op" /\ flt.i = i
        put == Call("FPutObject", currentBucket, key, <<>>, ~fails)
    IN  IF fails THEN Res(currentBucket, currentPrefix, bkts, ob, Append(cl, put), o1, "store error")
        ELSE ulWalk(walk, i + 1, prefix, Put(ob, currentBucket, key, walk[i].Size),
                    Append(cl, put), o1, flt)

\* local is what the local file system holds at args[1]: kind "file" with a
\* size, kind "dir" with the files below it, "none", or "error"
ul(args, flt, local) ==
    LET ca == checkArgs(args, <<"source", "destination">>, 2, TRUE)
    IN  IF ca # "" THEN Keep(<<>>, <<>>, ca)
        ELSE
        LET objKey == currentPrefix \o args[2]
            fails == flt.at = "op" /\ flt.i = 1
            put == Call("FPutObject", currentBucket, objKey, <<>>, ~fails)
        IN  IF local.kind = "error" THEN Keep(<<>>, <<>>, "local file error")
            ELSE IF local.kind = "file"
            THEN IF fails THEN Keep(<<put>>, <<Named("Upload local file to", objKey)>>, "store error")
                 ELSE Res(currentBucket, currentPrefix, bkts,
                          Put(objs, currentBucket, objKey, local.size), <<put>>,
                          <<Named("Upload local file to", objKey),
                            Line("Completed", <<>>, 0, local.size)>>, "")
            ELSE IF local.kind = "dir"
            THEN ulWalk(local.walk, 1, withSep(objKey), objs, <<>>,
                        <<Named("Upload local directory to", objKey)>>, flt)
            ELSE Keep(<<>>, <<>>, "")

\* an exists that knows files only
existsFilesOnly(key, flt) ==
    LET st == stat(key, flt)
    IN  [exists |-> st.err = "" /\ st.isFile, err |-> st.err, call |-> st.call]

\* exists(key): stat(key) found a file or a directory
exists(key, flt) ==
    LET st == stat(key, flt)
    IN  [exists |-> st.err = "" /\ (st.isFile \/ st.isDir), err |-> st.err, call |-> st.call]

touch(args, flt) ==
    LET ca == checkArgs(args, <<"object name">>, 1, TRUE)
    IN  IF ca # "" THEN Keep(<<>>, <<>>, ca)
        ELSE
        LET key == currentPrefix \o args[1]
            ex == exists(key, flt)
            fails == (flt.at = "op" /\ flt.i = 1) \/ Len(key) = 0
            put == Call("PutObject", currentBucket, key, <<>>, ~fails)
        IN  IF ex.err # "" THEN Keep(<<ex.call>>, <<>>, ex.err)
            ELSE IF ex.exists THEN Keep(<<ex.call>>, <<>>, "object already exists")
            ELSE IF fails THEN Keep(<<ex.call, put>>, <<>>, "store error")
            ELSE Res(currentBucket, currentPrefix, bkts, Put(objs, currentBucket, key, 0),
                     <<ex.call, put>>, <<Say("Object has been created")>>, "")

cat(args, flt) ==
    LET ca == checkArgs(args, <<"object name">>, 1, TRUE)
    IN  IF ca # "" THEN Keep(<<>>, <<>>, ca)
        ELSE
        LET objKey == currentPrefix \o args[1]
            st == stat(objKey, flt)
            fails == flt.at = "op" /\ flt.i = 1
            get == Call("GetObject", currentBucket, objKey, <<>>, ~fails)
        IN  IF st.err # "" THEN Keep(<<st.call>>, <<>>, st.err)
            ELSE IF st.isDir THEN Keep(<<st.call>>, <<>>, "is a directory")
            ELSE IF ~st.isFile THEN Keep(<<st.call>>, <<>>, "file not found")
            ELSE IF fails THEN Keep(<<st.call, get>>, <<>>, "store error")
            ELSE Keep(<<st.call, get>>,
                      <<Line("content", objKey, 0, objs[<<currentBucket, objKey>>])>>, "")

(***************************************************************************)
(* ls, find, list, help (commands.go:17-37, 111-133, 593-677, 851-912)     *)
(***************************************************************************)
\* the rows printObjects prints for the listed items that pass the filter
RECURSIVE rows(_, _, _)
rows(list, i, prefix) ==
    IF i > Len(list) THEN <<>>
    ELSE LET k == list[i].Key
             row == IF HasSuffix(k, <<Sep>>)
                    THEN Named("D", SubSeq(k, Len(prefix) + 1, Len(k) - 1))
                    ELSE Line("F", From(k, Len(prefix)), 0, list[i].Size)
         IN  <<row>> \o rows(list, i + 1, prefix)

\* the last part of an object key, the part find matches the needle against
objectName(key) ==
    LET parts == Split(key, Sep)
    IN  IF Len(parts[Len(parts)]) = 0 /\ Len(parts) > 1
        THEN parts[Len(parts) - 1] ELSE parts[Len(parts)]

LowerChar(c) ==
    CASE c = "D" -> "d" [] c = "E" -> "e" [] c = "L" -> "l" [] c = "T" -> "t" [] OTHER -> c
ToLower(s) == [i \in 1..Len(s) |-> LowerChar(s[i])]

Contains(s, needle) ==
    \E i \in 0..(Len(s) - Len(needle)) : SubSeq(s, i + 1, i + Len(needle)) = needle

\* the filter printObjects applies: none for ls (hasFilter FALSE), for find the
\* needle in the lower-cased last part of the key
filter(obj, hasFilter, needle) ==
    ~hasFilter \/ Contains(ToLower(objectName(obj.Key)), ToLower(needle))

\* the items of the listing, from item i on, that pass the filter
RECURSIVE SelectItems(_, _, _, _)
SelectItems(items, i, hasFilter, needle) ==
    IF i > Len(items) THEN <<>>
    ELSE (IF filter(items[i], hasFilter, needle) THEN <<items[i]>> ELSE <<>>)
         \o SelectItems(items, i + 1, hasFilter, needle)

\* printObjects(prefix, filter, nameFormatter); needle = <<>> with hasFilter
\* FALSE stands for the nil filter
printObjects(prefix, hasFilter, needle, flt) ==
    LET items == Deliver(ListObjectsV2(objs, bkts, currentBucket, prefix, FALSE), flt, "list")
        lcall == Call("ListObjectsV2", currentBucket, prefix, <<>>, ~hasErr(items))
        list == SelectItems(items, 1, hasFilter, needle)
    IN  IF hasErr(items) THEN Keep(<<lcall>>, <<>>, "failed to access object")
        ELSE IF Len(list) = 0 THEN Keep(<<lcall>>, <<Say("No objects found.")>>, "")
        ELSE Keep(<<lcall>>,
                  <<Line("Found objects", <<>>, Len(list), 0)>> \o rows(list, 1, prefix), "")

list(args, flt) ==
    LET ca == checkArgs(args, <<"list type">>, 1, FALSE)
        n == Cardinality(bkts)
    IN  IF ca # "" THEN Keep(<<>>, <<>>, ca)
        ELSE IF args[1] \in {WordBuckets, WordBucket}
        THEN IF flt.at = "exists"
             THEN Keep(<<Call("ListBuckets", <<>>, <<>>, <<>>, FALSE)>>, <<>>, "store error")
             ELSE Keep(<<Call("ListBuckets", <<>>, <<>>, <<>>, TRUE)>>,
                       IF n = 0 THEN <<Say("No buckets found")>>
                       ELSE <<Line("Found buckets", <<>>, n, 0)>>
                            \o [i \in 1..n |-> Named("B", SortKeys(bkts)[i])],
                       "")
        ELSE Keep(<<>>, <<>>, "unknown list type")

\* the prefix ls and find list when a directory argument is given
listedPrefix(prefix, dir) == IF HasSuffix(prefix, <<Sep>>) THEN dir ELSE dir \o <<Sep>>

ls(args, flt) ==
    LET ca == checkArgs(args, <<"dir name">>, 0, FALSE)
    IN  IF ca # "" THEN Keep(<<>>, <<>>, ca)
        ELSE IF Len(currentBucket) = 0
        THEN LET r == list(<<WordBucket>>, flt)
             IN  [r EXCEPT !.out = <<Say("No bucket entered yet. Listing buckets instead")>> \o @]
        ELSE printObjects(IF Len(args) > 0 THEN listedPrefix(currentPrefix, args[1])
                          ELSE currentPrefix, FALSE, <<>>, flt)

find(args, flt) ==
    LET ca == checkArgs(args, <<"needle", "prefix">>, 1, TRUE)
    IN  IF ca # "" THEN Keep(<<>>, <<>>, ca)
        ELSE printObjects(IF Len(args) > 1 THEN listedPrefix(currentPrefix, args[2])
                          ELSE currentPrefix, TRUE, args[1], flt)

help(args) == Keep(<<>>, <<Say("Available commands:")>>, "")

(***************************************************************************)
(* mkbucket, rmbucket (commands.go:679-771)                                *)
(***************************************************************************)
\* mkbucket that always enters the bucket it created
bucketAlwaysEntered(bucket, bucketName) == bucketName

\* mkbucket: the bucket of the session after bucketName was created
bucketAfterMkbucket(bucket, bucketName) == IF Len(bucket) = 0 THEN bucketName ELSE bucket

\* a MakeBucket that fails on a fault only and accepts the name of an existing bucket
makeBucketFailsOnFault(bk, bucketName, flt) == flt.at = "op" /\ flt.i = 1

\* err := minioClient.MakeBucket(bucketName, ""): the store refuses a name it holds
makeBucketFails(bk, bucketName, flt) == (flt.at = "op" /\ flt.i = 1) \/ bucketName \in bk

mkbucket(args, flt) ==
    LET ca == checkArgs(args, <<"bucket name">>, 1, FALSE)
    IN  IF ca # "" THEN Keep(<<>>, <<>>, ca)
        ELSE
        LET bucketName == args[1]
            fails == makeBucketFails(bkts, bucketName, flt)
        IN  IF fails
            THEN Keep(<<Call("MakeBucket", bucketName, <<>>, <<>>, FALSE)>>, <<>>, "store error")
            ELSE Res(bucketAfterMkbucket(currentBucket, bucketName),
                     currentPrefix, bkts \cup {bucketName}, objs,
                     <<Call("MakeBucket", bucketName, <<>>, <<>>, TRUE)>>,
                     <<Named("bucket created", bucketName)>>, "")

\* readln (cmd/s3client/consoleio.go:119-141): raw is what the reader holds up
\* to and including the next line break, or up to the end of the input
readln(raw) ==
    IF raw = <<>> \/ raw[Len(raw)] # "\n" THEN [text |-> <<>>, err |-> "EOF"]
    ELSE [text |-> SubSeq(raw, 1, Len(raw) - 1), err |-> ""]

\* the loop of rmbucket over the listing: item i, after i - 1 removals; the
\* removal of the bucket is the call after the last object's
\* an rmbucket that leaves the entered bucket whichever bucket it deleted
deletedAnyBucket(bucketName) == TRUE

\* rmbucket: if currentBucket == bucketName, the deleted bucket was entered
deletedEnteredBucket(bucketName) == currentBucket = bucketName

RECURSIVE rmbucketLoop(_, _, _, _, _, _, _)
rmbucketLoop(items, i, bucketName, ob, cl, o, flt) ==
    IF i > Len(items)
    THEN IF flt.at = "op" /\ flt.i = i
         THEN Res(currentBucket, currentPrefix, bkts, ob,
                  Append(cl, Call("RemoveBucket", bucketName, <<>>, <<>>, FALSE)), o, "store error")
         ELSE Res(IF deletedEnteredBucket(bucketName) THEN <<>> ELSE currentBucket,
                  IF deletedEnteredBucket(bucketName) THEN <<>> ELSE currentPrefix,
                  bkts \ {bucketName}, DropBucket(ob, bucketName),
                  Append(cl, Call("RemoveBucket", bucketName, <<>>, <<>>, TRUE)),
                  Append(o, Named("Bucket has been deleted", bucketName)), "")
    ELSE IF items[i].Err
         THEN Res(currentBucket, currentPrefix, bkts, ob, cl, o, "failed to access object")
    ELSE IF flt.at = "op" /\ flt.i = i
         THEN Res(currentBucket, currentPrefix, bkts, ob,
                  Append(cl, Call("RemoveObject", bucketName, items[i].Key, <<>>, FALSE)),
                  o, "failed to delete object")
    ELSE rmbucketLoop(items, i + 1, bucketName, Del(ob, bucketName, items[i].Key),
                      Append(cl, Call("RemoveObject", bucketName, items[i].Key, <<>>, TRUE)),
                      o, flt)

\* rmbucket: the first confirmation
nameMismatch(str, bucketName) == str # bucketName

\* a second confirmation that only an empty line declines
deleteMismatchEmpty(strDELETE) == strDELETE = <<>>

\* rmbucket: the second confirmation
deleteMismatch(strDELETE) == strDELETE # DELETE

\* how many lines rmbucket reads: none before the bucket is known to exist, the
\* second only after the first matched
rmbucketReads(args, flt, raw1) ==
    IF checkArgs(args, <<"bucket name">>, 1, FALSE) # "" \/ flt.at = "exists" \/ args[1] \notin bkts
    THEN 0
    ELSE IF readln(raw1).err # "" \/ nameMismatch(readln(raw1).text, args[1]) THEN 1 ELSE 2

\* raw1 and raw2 are the two lines the user types at the confirmations
rmbucket(args, flt, raw1, raw2) ==
    LET ca == checkArgs(args, <<"bucket name">>, 1, FALSE)
    IN  IF ca # "" THEN Keep(<<>>, <<>>, ca)
        ELSE
        LET bucketName == args[1]
            ecall == Call("BucketExists", bucketName, <<>>, <<>>, flt.at # "exists")
            str == readln(raw1)
            strDELETE == readln(raw2)
            warn1 == <<Named("You are about to delete bucket", bucketName)>>
            warn2 == Append(warn1, Say("Are you sure? Please enter DELETE"))
            items == Deliver(ListObjectsV2(objs, bkts, bucketName, <<>>, TRUE), flt, "list")
            lcall == Call("ListObjectsV2", bucketName, <<>>, <<>>, ~hasErr(items))
        IN  IF flt.at = "exists" THEN Keep(<<ecall>>, <<>>, "store error")
            ELSE IF bucketName \notin bkts THEN Keep(<<ecall>>, <<>>, "bucket does not exist")
            ELSE IF str.err # "" THEN Keep(<<ecall>>, warn1, str.err)
            ELSE IF nameMismatch(str.text, bucketName)
            THEN Keep(<<ecall>>, Append(warn1, Say("Input mismatch. Bucket was NOT deleted")), "")
            ELSE IF strDELETE.err # "" THEN Keep(<<ecall>>, warn2, strDELETE.err)
            ELSE IF deleteMismatch(strDELETE.text)
            THEN Keep(<<ecall>>, Append(warn2, Say("Abort. Bucket was NOT deleted")), "")
            ELSE rmbucketLoop(items, 1, bucketName, objs, <<ecall, lcall>>, warn2, flt)

(***************************************************************************)
(* The inputs of the model: names, stores and faults.                      *)
(***************************************************************************)
X == <<"x">>
Y == <<"y">>
P == <<"p">>
Q == <<"q">>
QQ == <<"q", "q">>
F1 == <<"1">>
F2 == <<"2">>
Nl == <<"\n">>

EmptyStore == [k \in {} |-> 0]

\* the stores a session may find when it connects
InitStores ==
    { [bkts |-> {X},
       objs |-> (<<X, <<"p", "/", "1">>>> :> 1) @@ (<<X, <<"p", "/", "2">>>> :> 2)],
      [bkts |-> {X, Y},
       objs |-> (<<X, <<"p", "/", "q", "/", "1">>>> :> 1) @@ (<<X, <<"p", "/", "1">>>> :> 2)
                @@ (<<Y, <<"1">>>> :> 1)] }

BucketArgs == {X, Y}
DirArgs == {DotDot, P, Q, F1, X}
SrcArgs == {P, F1}
DstArgs == {P, Q}
NewArgs == {Q, F1}
FlagArgs == {<<>>, <<FlagR>>, <<Q>>}
StatFaults == {NoFault, Flt("stat", 1)}
ListFaults == {NoFault, Flt("list", 1), Flt("list", 2)}
OpFaults == {NoFault, Flt("op", 1), Flt("op", 2)}
Faults == StatFaults \cup ListFaults \cup OpFaults
\* what the user may type at a confirmation of rmbucket
RawLines == {<<>>, X \o Nl, Y \o Nl, DELETE \o Nl}
Locals == { [kind |-> "none", size |-> 0, walk |-> <<>>],
            [kind |-> "error", size |-> 0, walk |-> <<>>],
            [kind |-> "file", size |-> 1, walk |-> <<>>],
            [kind |-> "dir", size |-> 0, walk |-> <<Entry(F1, 1), Entry(F2, 2)>>] }

(***************************************************************************)
(* main, browse, execCommand (unnamed/part_004)                            *)
(***************************************************************************)
NoCmd == [verb |-> "", args |-> <<>>, read |-> <<>>]
\* readCmd is not running
NoRead == [rest |-> <<>>, src |-> <<>>, line |-> <<>>, sb |-> <<>>, escape |-> FALSE,
           doubleQuote |-> FALSE, singleQuote |-> FALSE, cmd |-> <<>>, err |-> "",
           at |-> "idle"]
\* the nameFormatter of find is not running
NoFormat == [name |-> <<>>, needle |-> <<>>, i |-> 0, sb |-> <<>>, at |-> "idle"]
\* no enumeration in progress
NoListing == [consumer |-> "", n |-> 0, sent |-> 0, page |-> 0, buf |-> <<>>, closed |-> TRUE,
              done |-> FALSE, prod |-> "stopped", cons |-> "none"]
Snapshot == [bucket |-> currentBucket, prefix |-> currentPrefix, bkts |-> bkts, objs |-> objs]
NoSnapshot == [bucket |-> <<>>, prefix |-> <<>>, bkts |-> {}, objs |-> EmptyStore]

\* the command lines the model starts from: interactive or one command, the
\* default bucket of the target, and whether the target comes from a file
Configs ==
    { [oneShot |-> FALSE, defaultBucket |-> Y, sourceFile |-> TRUE],
      [oneShot |-> TRUE, defaultBucket |-> X, sourceFile |-> TRUE],
      [oneShot |-> TRUE, defaultBucket |-> Y, sourceFile |-> TRUE],
      [oneShot |-> TRUE, defaultBucket |-> Y, sourceFile |-> FALSE] }

Init ==
    /\ pc = "connect"
    /\ \E c \in Configs :
        oneShot = c.oneShot /\ defaultBucket = c.defaultBucket /\ sourceFile = c.sourceFile
    /\ exitCode = -1
    /\ currentBucket = <<>>
    /\ currentPrefix = <<>>
    /\ \E s \in InitStores : bkts = s.bkts /\ objs = s.objs
    /\ muts = 0
    /\ cmd = NoCmd
    /\ pre = NoSnapshot
    /\ calls = <<>>
    /\ out = <<>>
    /\ err = ""
    /\ listing = NoListing
    /\ rd = NoRead
    /\ nf = NoFormat
    /\ osArgs = <<>>

\* connect(target): minio.New succeeds (ok) or returns an error
connect ==
    /\ pc = "connect"
    /\ \E ok \in BOOLEAN :
        IF ok
        THEN /\ currentBucket' = defaultBucket
             /\ currentPrefix' = <<>>
             /\ pc' = "default"
             /\ exitCode' = exitCode
        ELSE /\ pc' = "exit"
             /\ exitCode' = 1
             /\ UNCHANGED <<currentBucket, currentPrefix>>
    /\ UNCHANGED <<oneShot, defaultBucket, sourceFile, bkts, objs, muts, cmd, pre, calls, out, err,
                   listing, rd, nf, osArgs>>

\* a start that keeps the default bucket of the target when it could not be entered
enterDefaultKeepsBucket ==
    /\ pc = "default"
    /\ \E flt \in {NoFault, Flt("exists", 1)} :
        LET r == enter(<<defaultBucket>>, flt)
        IN  IF Len(defaultBucket) = 0
            THEN /\ pc' = "ready"
                 /\ UNCHANGED <<currentBucket, currentPrefix, exitCode, calls, err>>
            ELSE /\ calls' = r.calls
                 /\ err' = r.err
                 /\ currentPrefix' = r.prefix
                 /\ currentBucket' = r.bucket
                 /\ IF r.err # "" /\ ~sourceFile /\ oneShot
                    THEN pc' = "exit" /\ exitCode' = 1
                    ELSE pc' = "ready" /\ exitCode' = exitCode
    /\ UNCHANGED <<oneShot, defaultBucket, sourceFile, bkts, objs, muts, cmd, pre, out, listing, rd, nf, osArgs>>

\* main(), lines 45-55: enter the default bucket of the target
enterDefault ==
    /\ pc = "default"
    /\ \E flt \in {NoFault, Flt("exists", 1)} :
        LET r == enter(<<defaultBucket>>, flt)
        IN  IF Len(defaultBucket) = 0
            THEN /\ pc' = "ready"
                 /\ UNCHANGED <<currentBucket, currentPrefix, exitCode, calls, err>>
            ELSE /\ calls' = r.calls
                 /\ err' = r.err
                 /\ currentPrefix' = r.prefix
                 /\ currentBucket' = IF r.err # "" THEN <<>> ELSE r.bucket
                 /\ IF r.err # "" /\ ~sourceFile /\ oneShot
                    THEN pc' = "exit" /\ exitCode' = 1
                    ELSE pc' = "ready" /\ exitCode' = exitCode
    /\ UNCHANGED <<oneShot, defaultBucket, sourceFile, bkts, objs, muts, cmd, pre, out, listing, rd, nf, osArgs>>

\* execCommand(verb, args) with handler result r, which read the lines in read
Exec(verb, args, read, r) ==
    /\ pc = "ready"
    /\ \A x \in DOMAIN r.objs : Len(x[2]) <= MaxKeyLen
    /\ (r.objs = objs /\ r.bkts = bkts) \/ muts < MaxMutations
    /\ muts' = IF r.objs = objs /\ r.bkts = bkts THEN muts ELSE muts + 1
    /\ pc' = "done"
    /\ cmd' = [verb |-> verb, args |-> args, read |-> read]
    /\ pre' = Snapshot
    /\ currentBucket' = r.bucket
    /\ currentPrefix' = r.prefix
    /\ bkts' = r.bkts
    /\ objs' = r.objs
    /\ calls' = r.calls
    /\ out' = r.out
    /\ err' = r.err
    /\ UNCHANGED <<oneShot, defaultBucket, sourceFile, exitCode, listing, rd, nf, osArgs>>

execHelp == Exec("help", <<>>, <<>>, help(<<>>))
execEnter ==
    \E a \in BucketArgs, flt \in {NoFault, Flt("exists", 1)} :
        Exec("enter", <<a>>, <<>>, enter(<<a>>, flt))
execLeave == Exec("leave", <<>>, <<>>, leave(<<>>))
execCd ==
    \E a \in DirArgs, flt \in StatFaults \cup {Flt("exists", 1)} :
        Exec("cd", <<a>>, <<>>, cd(<<a>>, flt))
execLs ==
    \E args \in {<<>>, <<P>>}, flt \in {NoFault, Flt("list", 1), Flt("exists", 1)} :
        Exec("ls", args, <<>>, ls(args, flt))
execRm ==
    \E a \in SrcArgs, f \in FlagArgs, flt \in Faults :
        Exec("rm", <<a>> \o f, <<>>, rm(<<a>> \o f, flt))
execDl ==
    \E a \in SrcArgs, flt \in Faults :
        Exec("dl", <<a, Q>>, <<>>, dl(<<a, Q>>, flt))
execUl ==
    \E flt \in OpFaults, local \in Locals :
        Exec("ul", <<P, Q>>, <<>>, ul(<<P, Q>>, flt, local))
execMv ==
    \E a \in SrcArgs, b \in DstArgs, flt \in Faults \cup {Flt("op", 3), Flt("op", 4)} :
        Exec("mv", <<a, b>>, <<>>, mv(<<a, b>>, flt))
execCp ==
    \E args \in (SrcArgs \X DstArgs) \cup {<<P, QQ>>}, flt \in Faults :
        Exec("cp", args, <<>>, cp(args, flt))
execTouch ==
    \E a \in NewArgs, flt \in StatFaults \cup {Flt("op", 1)} :
        Exec("touch", <<a>>, <<>>, touch(<<a>>, flt))
execCat ==
    \E a \in SrcArgs, flt \in StatFaults \cup {Flt("op", 1)} :
        Exec("cat", <<a>>, <<>>, cat(<<a>>, flt))
execFind ==
    \E args \in {<<F1>>, <<F1, P>>}, flt \in {NoFault, Flt("list", 1)} :
        Exec("find", args, <<>>, find(args, flt))
execList ==
    \E a \in {WordBucket, P}, flt \in {NoFault, Flt("exists", 1)} :
        Exec("list", <<a>>, <<>>, list(<<a>>, flt))
execMkbucket ==
    \E a \in BucketArgs, flt \in {NoFault, Flt("op", 1)} :
        Exec("mkbucket", <<a>>, <<>>, mkbucket(<<a>>, flt))
execRmbucket ==
    /\ pc = "ready"
    /\ \E a \in BucketArgs, raw1 \in RawLines,
       flt \in ListFaults \cup OpFaults \cup {Flt("op", 3), Flt("exists", 1)} :
        \E raw2 \in IF rmbucketReads(<<a>>, flt, raw1) = 2 THEN RawLines ELSE {<<>>} :
            Exec("rmbucket", <<a>>, Consumed(<<raw1, raw2>>, rmbucketReads(<<a>>, flt, raw1)),
                 rmbucket(<<a>>, flt, raw1, raw2))

\* a loop that a failed command ends, as it ends the one-shot process
returnEndsLoopOnError ==
    /\ pc = "done"
    /\ IF oneShot \/ err # ""
       THEN /\ pc' = "exit"
            /\ exitCode' = IF err # "" THEN 1 ELSE 0
            /\ UNCHANGED <<cmd, pre, calls, out, err>>
       ELSE /\ pc' = "ready"
            /\ cmd' = NoCmd
            /\ pre' = NoSnapshot
            /\ calls' = <<>>
            /\ out' = <<>>
            /\ err' = ""
            /\ exitCode' = exitCode
    /\ UNCHANGED <<oneShot, defaultBucket, sourceFile, currentBucket, currentPrefix, bkts, objs, muts,
                   listing, rd, nf, osArgs>>

\* browse(): the command returned, its error is printed and the next line is read;
\* main(): the one command of the command line returned, the process exits
return ==
    /\ pc = "done"
    /\ IF oneShot
       THEN /\ pc' = "exit"
            /\ exitCode' = IF err # "" THEN 1 ELSE 0
            /\ UNCHANGED <<cmd, pre, calls, out, err>>
       ELSE /\ pc' = "ready"
            /\ cmd' = NoCmd
            /\ pre' = NoSnapshot
            /\ calls' = <<>>
            /\ out' = <<>>
            /\ err' = ""
            /\ exitCode' = exitCode
    /\ UNCHANGED <<oneShot, defaultBucket, sourceFile, currentBucket, currentPrefix, bkts, objs, muts,
                   listing, rd, nf, osArgs>>

\* browse(): "exit" or "q" ends the loop
quit ==
    /\ pc = "ready"
    /\ ~oneShot
    /\ pc' = "exit"
    /\ exitCode' = 0
    /\ UNCHANGED <<oneShot, defaultBucket, sourceFile, currentBucket, currentPrefix, bkts, objs,
                   muts, cmd, pre, calls, out, err, listing, rd, nf, osArgs>>

\* browse(): readCmd returns an error (the input ended or cannot be read),
\* browse returns it and main exits with status 1
readError ==
    /\ pc = "ready"
    /\ ~oneShot
    /\ pc' = "exit"
    /\ exitCode' = 1
    /\ UNCHANGED <<oneShot, defaultBucket, sourceFile, currentBucket, currentPrefix, bkts, objs,
                   muts, cmd, pre, calls, out, err, listing, rd, nf, osArgs>>

Next ==
    \/ connect
    \/ enterDefault
    \/ execHelp
    \/ execEnter
    \/ execLeave
    \/ execCd
    \/ execLs
    \/ execRm
    \/ execDl
    \/ execUl
    \/ execMv
    \/ execCp
    \/ execTouch
    \/ execCat
    \/ execFind
    \/ execList
    \/ execMkbucket
    \/ execRmbucket
    \/ return
    \/ quit
    \/ readError

Spec == Init /\ [][Next]_vars

(***************************************************************************)
(* stat and exists (commands.go:801-849) on their own: a session inside     *)
(* bucket x of a store that holds any of five objects, and one call.        *)
(***************************************************************************)
\* the objects a store may hold: the file p/1, the marker p/q/, an object p/q
\* named like the directory, a child p/q/1 and p/12, whose key begins with p/1
StatObjects ==
    { <<"p", "/", "1">>, <<"p", "/", "q", "/">>, <<"p", "/", "q">>,
      <<"p", "/", "q", "/", "1">>, <<"p", "/", "1", "2">> }
\* a marker is empty, any other object has as many bytes as its key
StatSize(k) == IF HasSuffix(k, <<Sep>>) THEN 0 ELSE Len(k)
StatStores ==
    { [bkts |-> {X}, objs |-> [o \in {<<X, k>> : k \in S} |-> StatSize(o[2])]] :
          S \in SUBSET StatObjects }
\* the keys stat is asked about
StatKeys ==
    { <<"p", "/", "1">>, <<"p", "/", "1", "/">>, <<"p", "/", "q">>, <<"p", "/", "q", "/">>,
      <<"p", "/", "x">>, <<"p">> }

InitStat ==
    /\ pc = "ready"
    /\ oneShot = TRUE /\ defaultBucket = X /\ sourceFile = TRUE
    /\ exitCode = -1
    /\ currentBucket = X
    /\ currentPrefix = <<>>
    /\ \E s \in StatStores : bkts = s.bkts /\ objs = s.objs
    /\ muts = 0
    /\ cmd = NoCmd
    /\ pre = NoSnapshot
    /\ calls = <<>>
    /\ out = <<>>
    /\ err = ""
    /\ listing = NoListing
    /\ rd = NoRead
    /\ nf = NoFormat
    /\ osArgs = <<>>

\* one call of stat(key) and of exists(key); out holds what they returned
statCalled ==
    /\ pc = "ready"
    /\ \E key \in StatKeys, flt \in {NoFault, Flt("stat", 1), Flt("stat", 2)} :
        LET st == stat(key, flt)
            ex == exists(key, flt)
        IN  /\ cmd' = [verb |-> "stat", args |-> <<key>>, read |-> <<>>]
            /\ calls' = <<st.call>>
            /\ out' = <<[isFile |-> st.isFile, isDir |-> st.isDir, fileSize |-> st.fileSize,
                         exists |-> ex.exists, existsErr |-> ex.err]>>
            /\ err' = st.err
    /\ pre' = Snapshot
    /\ pc' = "done"
    /\ UNCHANGED <<oneShot, defaultBucket, sourceFile, exitCode, currentBucket, currentPrefix,
                   bkts, objs, muts, listing, rd, nf, osArgs>>

StatSpec == InitStat /\ [][statCalled]_vars

(***************************************************************************)
(* Completion of remote paths (unnamed/part_000:107-128,                   *)
(* consoleio.go:82-108) on its own: a session inside bucket x, at the root *)
(* or in p/, of a store that holds any of the five objects, and one call   *)
(* of the provider for a typed word.                                       *)
(***************************************************************************)
\* getRemoteFiles(prefix): the keys of the shallow listing filtered by prefix,
\* an object by its key and a directory by its key with the separator
getRemoteFiles(prefix, flt) ==
    LET items == Deliver(ListObjectsV2(objs, bkts, currentBucket, prefix, FALSE), flt, "list")
    IN  IF hasErr(items) THEN [files |-> <<>>, err |-> "store error"]
        ELSE [files |-> [i \in 1..Len(items) |-> items[i].Key], err |-> ""]

\* a provider that marks every candidate as final
GetCandidatesAllFinal(withFiles, word, flt) ==
    LET got == getRemoteFiles(currentPrefix \o word, flt)
        keep(f) == withFiles \/ HasSuffix(f, <<Sep>>)
        kept == SelectSeq(got.files, keep)
    IN  IF got.err # "" THEN <<>>
        ELSE [i \in 1..Len(kept) |->
                [ReplaceString |-> From(kept[i], Len(currentPrefix)), IsFinal |-> TRUE]]

\* argRemoteFile.GetCandidates (unnamed/part_000): word is
\* currentCommand[entryIndex]; nil is the empty list
GetCandidates(withFiles, word, flt) ==
    LET got == getRemoteFiles(currentPrefix \o word, flt)
        keep(f) == withFiles \/ HasSuffix(f, <<Sep>>)
        kept == SelectSeq(got.files, keep)
    IN  IF got.err # "" THEN <<>>
        ELSE [i \in 1..Len(kept) |->
                [ReplaceString |-> From(kept[i], Len(currentPrefix)),
                 IsFinal |-> ~HasSuffix(kept[i], <<Sep>>)]]

\* argRemoteFile.GetCompletionOptions (consoleio.go): the same candidates as
\* labelled options, a directory as a partial one
GetCompletionOptions(withFiles, word, flt) ==
    LET got == getRemoteFiles(currentPrefix \o word, flt)
        keep(f) == withFiles \/ HasSuffix(f, <<Sep>>)
        kept == SelectSeq(got.files, keep)
        parts(f) == Split(f, Sep)
        label(f) == IF HasSuffix(f, <<Sep>>)
                    THEN parts(f)[Len(parts(f))] \o parts(f)[Len(parts(f)) - 1] \o <<Sep>>
                    ELSE parts(f)[Len(parts(f))]
    IN  IF got.err # "" THEN <<>>
        ELSE [i \in 1..Len(kept) |->
                [Label |-> label(kept[i]),
                 Replacement |-> From(kept[i], Len(currentPrefix)),
                 IsPartial |-> HasSuffix(kept[i], <<Sep>>)]]

\* the words the user may have typed when asking for completion
TypedWords == {<<>>, P, P \o <<Sep>>, Q, F1}

InitComp ==
    /\ pc = "ready"
    /\ oneShot = FALSE /\ defaultBucket = X /\ sourceFile = TRUE
    /\ exitCode = -1
    /\ currentBucket = X
    /\ currentPrefix \in {<<>>, P \o <<Sep>>}
    /\ \E s \in StatStores : bkts = s.bkts /\ objs = s.objs
    /\ muts = 0
    /\ cmd = NoCmd
    /\ pre = NoSnapshot
    /\ calls = <<>>
    /\ out = <<>>
    /\ err = ""
    /\ listing = NoListing
    /\ rd = NoRead
    /\ nf = NoFormat
    /\ osArgs = <<>>

\* one request for completion of the word typed as an argument of a verb whose
\* provider is newArgRemoteFile(withFiles); out holds what was listed and what
\* both versions of the provider returned
completionCalled ==
    /\ pc = "ready"
    /\ \E withFiles \in BOOLEAN, word \in TypedWords, flt \in {NoFault, Flt("list", 1)} :
        /\ cmd' = [verb |-> "complete", args |-> <<word>>, read |-> <<>>]
        /\ out' = <<[withFiles |-> withFiles,
                     files |-> getRemoteFiles(currentPrefix \o word, flt).files,
                     candidates |-> GetCandidates(withFiles, word, flt),
                     options |-> GetCompletionOptions(withFiles, word, flt)]>>
        /\ err' = getRemoteFiles(currentPrefix \o word, flt).err
    /\ pre' = Snapshot
    /\ pc' = "done"
    /\ UNCHANGED <<oneShot, defaultBucket, sourceFile, exitCode, currentBucket, currentPrefix,
                   bkts, objs, muts, calls, listing, rd, nf, osArgs>>

CompSpec == InitComp /\ [][completionCalled]_vars

(***************************************************************************)
(* rm (commands.go:135-185) on its own: a session inside bucket x, at the  *)
(* root or in p/, of a store that holds any of five objects, among them    *)
(* keys that begin with a directory's name without being below it, and one *)
(* rm.                                                                     *)
(***************************************************************************)
\* the objects a store may hold: p/1 and p/q/1 below p/, and p/q1, pq and
\* pq/1, whose keys begin with p/q or p but are not below p/q/ or p/
RmObjects ==
    { <<"p", "/", "1">>, <<"p", "/", "q", "/", "1">>, <<"p", "/", "q", "1">>,
      <<"p", "q">>, <<"p", "q", "/", "1">> }
RmStores ==
    { [bkts |-> {X}, objs |-> [o \in {<<X, k>> : k \in S} |-> Len(o[2])]] :
          S \in SUBSET RmObjects }

InitRm ==
    /\ pc = "ready"
    /\ oneShot = TRUE /\ defaultBucket = X /\ sourceFile = TRUE
    /\ exitCode = -1
    /\ currentBucket = X
    /\ currentPrefix \in {<<>>, P \o <<Sep>>}
    /\ \E s \in RmStores : bkts = s.bkts /\ objs = s.objs
    /\ muts = 0
    /\ cmd = NoCmd
    /\ pre = NoSnapshot
    /\ calls = <<>>
    /\ out = <<>>
    /\ err = ""
    /\ listing = NoListing
    /\ rd = NoRead
    /\ nf = NoFormat
    /\ osArgs = <<>>

\* rm p, rm q, rm pq, with and without -r
rmCalled ==
    \E a \in {P, Q, P \o Q}, f \in {<<>>, <<FlagR>>}, flt \in Faults :
        Exec("rm", <<a>> \o f, <<>>, rm(<<a>> \o f, flt))

RmSpec == InitRm /\ [][rmCalled \/ return]_vars

(***************************************************************************)
(* mv (commands.go:352-445) on its own: a session at the root of bucket x  *)
(* of a store that holds any of five objects, and one mv whose destination *)
(* is another directory or a directory inside the source.  In the model's  *)
(* scale of names the shortest directory inside p/ is the one with the     *)
(* empty name, p//.                                                        *)
(***************************************************************************)
\* the objects a store may hold; an object has as many bytes as its key
MvObjects ==
    { <<"p", "/", "-">>, <<"p", "/", "/", "-">>, <<"p", "/", "1">>, <<"q", "/", "1">>,
      <<"1">> }
MvStores ==
    { [bkts |-> {X}, objs |-> [o \in {<<X, k>> : k \in S} |-> Len(o[2])]] :
          S \in SUBSET MvObjects }
\* mv p q, mv p p//, mv 1 q, mv 1 p/1
MvArgs == { <<P, Q>>, <<P, <<"p", "/", "/">>>>, <<F1, Q>>, <<F1, <<"p", "/", "1">>>> }

InitMv ==
    /\ pc = "ready"
    /\ oneShot = TRUE /\ defaultBucket = X /\ sourceFile = TRUE
    /\ exitCode = -1
    /\ currentBucket = X
    /\ currentPrefix = <<>>
    /\ \E s \in MvStores : bkts = s.bkts /\ objs = s.objs
    /\ muts = 0
    /\ cmd = NoCmd
    /\ pre = NoSnapshot
    /\ calls = <<>>
    /\ out = <<>>
    /\ err = ""
    /\ listing = NoListing
    /\ rd = NoRead
    /\ nf = NoFormat
    /\ osArgs = <<>>

mvCalled ==
    \E args \in MvArgs, flt \in Faults \cup {Flt("op", 3), Flt("op", 4)} :
        Exec("mv", args, <<>>, mv(args, flt))

MvSpec == InitMv /\ [][mvCalled \/ return]_vars

(***************************************************************************)
(* execCommand (unnamed/part_004:237-244) with argument lists of any       *)
(* length: a session in which each command line is one of the sixteen      *)
(* verbs followed by none to MaxArgs words, the store answering every call *)
(* and the console at its end.                                             *)
(***************************************************************************)
MaxArgs == 3
Verbs == {"help", "enter", "leave", "cd", "ls", "rm", "dl", "ul", "mv", "cp", "touch", "cat",
          "find", "list", "mkbucket", "rmbucket"}
\* a word that is no key of the commands map
UnknownVerb == "nope"
ArgWords == {P, X}
ArgLists == UNION {[1..n -> ArgWords] : n \in 0..MaxArgs}
NoLocal == [kind |-> "none", size |-> 0, walk |-> <<>>]

\* f, ok := commands[cmd]; return f(args)
execCommand(verb, args) ==
    CASE verb = "help" -> help(args)
      [] verb = "enter" -> enter(args, NoFault)
      [] verb = "leave" -> leave(args)
      [] verb = "cd" -> cd(args, NoFault)
      [] verb = "ls" -> ls(args, NoFault)
      [] verb = "rm" -> rm(args, NoFault)
      [] verb = "dl" -> dl(args, NoFault)
      [] verb = "ul" -> ul(args, NoFault, NoLocal)
      [] verb = "mv" -> mv(args, NoFault)
      [] verb = "cp" -> cp(args, NoFault)
      [] verb = "touch" -> touch(args, NoFault)
      [] verb = "cat" -> cat(args, NoFault)
      [] verb = "find" -> find(args, NoFault)
      [] verb = "list" -> list(args, NoFault)
      [] verb = "mkbucket" -> mkbucket(args, NoFault)
      [] verb = "rmbucket" -> rmbucket(args, NoFault, <<>>, <<>>)
      [] OTHER -> Keep(<<>>, <<>>, "unknown command")

\* the lines the command read from the console
readBy(verb, args) ==
    IF verb = "rmbucket"
    THEN Consumed(<<<<>>, <<>>>>, rmbucketReads(args, NoFault, <<>>))
    ELSE <<>>

execLine ==
    /\ pc = "ready"
    /\ \E verb \in Verbs \cup {UnknownVerb}, args \in ArgLists :
        Exec(verb, args, readBy(verb, args), execCommand(verb, args))

ArgNext ==
    \/ connect
    \/ enterDefault
    \/ execLine
    \/ return
    \/ quit
    \/ readError

ArgSpec == Init /\ [][ArgNext]_vars

(***************************************************************************)
(* The interactive command-line environment (consoleio.go:26-62,           *)
(* unnamed/part_000:18-54) of the versions whose session is cle.Run(): a   *)
(* session in which every line is dispatched through the handlers that     *)
(* prepareCLE registers.                                                   *)
(***************************************************************************)
\* prepareCLE: the handler that cle.RegisterCommand binds to the verb; "ul"
\* is registered with dl
cleCommands(verb) == IF verb = "ul" THEN "dl" ELSE verb

\* runCLE: cle.Run() reads a line and calls the handler registered for its verb
cleRun ==
    /\ pc = "ready"
    /\ ~oneShot
    /\ \E verb \in Verbs, args \in ArgLists :
        Exec(verb, args, readBy(cleCommands(verb), args), execCommand(cleCommands(verb), args))

CleNext ==
    \/ connect
    \/ enterDefault
    \/ cleRun
    \/ return
    \/ quit

CleSpec == Init /\ [][CleNext]_vars

(***************************************************************************)
(* One enumeration: the goroutine of minioClient.ListObjectsV2 (minio-go   *)
(* v6.0.14, pinned by go.mod) that produces the entries, and the loop      *)
(* "for obj := range objectCh" of a handler that consumes them.  The       *)
(* goroutine requests the listing page by page; it sends each entry with   *)
(* a select on the channel and on doneCh, it sends the error of a failed   *)
(* request without a select, and it closes the channel when it returns.   *)
(* Every handler creates doneCh and defers close(doneCh).                  *)
(***************************************************************************)
\* the most entries a listing has
MaxItems == 3
\* the entries of one request: 1000 in minio-go, here in the scale of MaxItems
PageSize == 2
\* the capacity of the channel ListObjectsV2 returns
ChanCap == 1

Consumers == {"stat", "printObjects", "rm", "dl", "mv", "cp", "rmbucket"}
\* the loops that return at an entry that is no error: stat at a match, rm and
\* rmbucket at an entry whose RemoveObject failed
ReturnsAtEntry(consumer) == consumer \in {"stat", "rm", "rmbucket"}

ObjEntry(i) == [Err |-> FALSE, i |-> i]
ErrItem == [Err |-> TRUE, i |-> 0]

InitList ==
    /\ pc = "done"
    /\ oneShot = FALSE /\ defaultBucket = X /\ sourceFile = TRUE
    /\ exitCode = -1
    /\ currentBucket = X
    /\ currentPrefix = <<>>
    /\ bkts = {X} /\ objs = EmptyStore
    /\ muts = 0
    /\ cmd = NoCmd
    /\ pre = NoSnapshot
    /\ calls = <<>>
    /\ out = <<>>
    /\ err = ""
    /\ rd = NoRead
    /\ nf = NoFormat
    /\ osArgs = <<>>
    /\ \E consumer \in Consumers, n \in 0..MaxItems :
        listing = [consumer |-> consumer, n |-> n, sent |-> 0, page |-> 0, buf |-> <<>>,
                   closed |-> FALSE, done |-> FALSE, prod |-> "query", cons |-> "range"]

Unlisted == <<pc, oneShot, defaultBucket, sourceFile, exitCode, currentBucket, currentPrefix,
              bkts, objs, muts, cmd, pre, calls, out, err, rd, nf, osArgs>>

\* the goroutine requests the next page: the request fails, or it returns up to
\* PageSize entries; a listing without entries ends here
listQuery ==
    /\ listing.prod = "query"
    /\ \E ok \in BOOLEAN :
        LET hi == IF listing.sent + PageSize < listing.n THEN listing.sent + PageSize
                  ELSE listing.n
        IN  listing' =
                IF ~ok THEN [listing EXCEPT !.prod = "report"]
                ELSE IF hi = listing.sent
                THEN [listing EXCEPT !.prod = "stopped", !.closed = TRUE]
                ELSE [listing EXCEPT !.page = hi, !.prod = "send"]
    /\ UNCHANGED Unlisted

\* select { case objectStatCh <- object: ... case <-doneCh: return }; after the
\* last entry of a page the next page is requested if the result was truncated
listSend ==
    /\ listing.prod = "send"
    /\ \/ /\ Len(listing.buf) < ChanCap
          /\ listing' =
                [listing EXCEPT
                    !.buf = Append(@, ObjEntry(listing.sent + 1)),
                    !.sent = @ + 1,
                    !.prod = IF listing.sent + 1 < listing.page THEN "send"
                             ELSE IF listing.page < listing.n THEN "query"
                             ELSE "stopped",
                    !.closed = (listing.sent + 1 = listing.n)]
       \/ /\ listing.done
          /\ listing' = [listing EXCEPT !.prod = "stopped", !.closed = TRUE]
    /\ UNCHANGED Unlisted

\* objectStatCh <- ObjectInfo{Err: err}; return
listReport ==
    /\ listing.prod = "report"
    /\ Len(listing.buf) < ChanCap
    /\ listing' = [listing EXCEPT !.buf = Append(@, ErrItem), !.prod = "stopped",
                                   !.closed = TRUE]
    /\ UNCHANGED Unlisted

\* the loop receives an entry: it returns at an error entry, stat, rm and
\* rmbucket may return at any other entry, and the deferred close(doneCh) runs
consumerReceive ==
    /\ listing.cons = "range"
    /\ listing.buf # <<>>
    /\ \E returns \in BOOLEAN :
        /\ Head(listing.buf).Err => returns
        /\ returns => (Head(listing.buf).Err \/ ReturnsAtEntry(listing.consumer))
        /\ listing' = [listing EXCEPT !.buf = Tail(@),
                                       !.cons = IF returns THEN "returned" ELSE "range",
                                       !.done = returns]
    /\ UNCHANGED Unlisted

\* the channel is closed and empty: the loop ends, the handler does the rest of
\* its work and returns, and the deferred close(doneCh) runs
consumerEnd ==
    /\ listing.cons = "range"
    /\ listing.buf = <<>>
    /\ listing.closed
    /\ listing' = [listing EXCEPT !.cons = "returned", !.done = TRUE]
    /\ UNCHANGED Unlisted

ListNext ==
    \/ listQuery
    \/ listSend
    \/ listReport
    \/ consumerReceive
    \/ consumerEnd

\* the Go scheduler runs a goroutine that can take a step, a request to the
\* store returns, and so does the work of a handler on an entry
ListFair ==
    /\ WF_vars(listQuery)
    /\ WF_vars(listSend)
    /\ WF_vars(listReport)
    /\ WF_vars(consumerReceive)
    /\ WF_vars(consumerEnd)

ListSpec == InitList /\ [][ListNext]_vars /\ ListFair

(***************************************************************************)
(* readCmd (cmd/s3client/consoleio.go:28-117) under browse(): the console  *)
(* holds an input of at most MaxInput characters, readln takes it line by  *)
(* line, the tokenizer scans each line rune by rune, and browse() hands    *)
(* every argument vector to execCommand and calls readCmd again until the  *)
(* input ends or the command is q.                                         *)
(***************************************************************************)
\* the longest input the console holds
MaxInput == 5

\* the characters of an input: a letter, the space, both quotes, the
\* backslash and the line break
Runes == {"q", " ", "'", "\"", "\\", "\n"}

\* the line a "b c" d, typed and entered
QuotedLine == <<"a", " ", "\"", "b", " ", "c", "\"", " ", "d", "\n">>

Inputs == UNION {[1..n -> Runes] : n \in 0..MaxInput} \cup {QuotedLine}

\* reader.ReadString('\n'): the input up to and including the first line
\* break, all of it when it has none
ReadString(rest) ==
    LET brk == {i \in 1..Len(rest) : rest[i] = "\n"}
    IN  IF brk = {} THEN rest
        ELSE SubSeq(rest, 1, CHOOSE i \in brk : \A j \in brk : i <= j)

\* strings.TrimSpace on the characters of Runes
TrimSpace(s) ==
    LET ink == {i \in 1..Len(s) : s[i] \notin {" ", "\n"}}
    IN  IF ink = {} THEN <<>>
        ELSE SubSeq(s, CHOOSE i \in ink : \A j \in ink : i <= j,
                       CHOOSE i \in ink : \A j \in ink : j <= i)

\* a tokenizer in which the backslash escapes inside single quotes too
scanSingleEscaping(st, r) ==
    IF st.escape THEN [st EXCEPT !.sb = Append(@, r), !.escape = FALSE]
    ELSE IF r = "'" THEN [st EXCEPT !.singleQuote = FALSE]
    ELSE IF r = "\\" THEN [st EXCEPT !.escape = TRUE]
    ELSE [st EXCEPT !.sb = Append(@, r)]

\* readCmd, the branch "if singleQuote" of the loop over the runes
scanSingle(st, r) ==
    IF r = "'" THEN [st EXCEPT !.singleQuote = FALSE]
    ELSE [st EXCEPT !.sb = Append(@, r)]

\* a tokenizer that ends the token at a space inside double quotes
scanDoubleSplitting(st, r) ==
    IF st.escape THEN [st EXCEPT !.sb = Append(@, r), !.escape = FALSE]
    ELSE IF r = "\"" THEN [st EXCEPT !.doubleQuote = FALSE]
    ELSE IF r = "\\" THEN [st EXCEPT !.escape = TRUE]
    ELSE IF r = " " THEN [st EXCEPT !.cmd = Append(@, st.sb), !.sb = <<>>]
    ELSE [st EXCEPT !.sb = Append(@, r)]

\* readCmd, the branch "else if doubleQuote"
scanDouble(st, r) ==
    IF st.escape THEN [st EXCEPT !.sb = Append(@, r), !.escape = FALSE]
    ELSE IF r = "\"" THEN [st EXCEPT !.doubleQuote = FALSE]
    ELSE IF r = "\\" THEN [st EXCEPT !.escape = TRUE]
    ELSE [st EXCEPT !.sb = Append(@, r)]

\* a tokenizer that ends a token at every plain space, also where none was begun
scanPlainEmptyTokens(st, r) ==
    IF st.escape THEN [st EXCEPT !.sb = Append(@, r), !.escape = FALSE]
    ELSE IF r = "\\" THEN [st EXCEPT !.escape = TRUE]
    ELSE IF r = "'" THEN [st EXCEPT !.singleQuote = TRUE]
    ELSE IF r = "\"" THEN [st EXCEPT !.doubleQuote = TRUE]
    ELSE IF r = " " THEN [st EXCEPT !.cmd = Append(@, st.sb), !.sb = <<>>]
    ELSE [st EXCEPT !.sb = Append(@, r)]

\* readCmd, the branches "else if escape" and "else"
scanPlain(st, r) ==
    IF st.escape THEN [st EXCEPT !.sb = Append(@, r), !.escape = FALSE]
    ELSE IF r = "\\" THEN [st EXCEPT !.escape = TRUE]
    ELSE IF r = "'" THEN [st EXCEPT !.singleQuote = TRUE]
    ELSE IF r = "\"" THEN [st EXCEPT !.doubleQuote = TRUE]
    ELSE IF r = " "
    THEN IF st.sb # <<>> THEN [st EXCEPT !.cmd = Append(@, st.sb), !.sb = <<>>] ELSE st
    ELSE [st EXCEPT !.sb = Append(@, r)]

\* readCmd, the body of "for _, r := range line" for the rune r
scanRune(st, r) ==
    IF st.singleQuote THEN scanSingle(st, r)
    ELSE IF st.doubleQuote THEN scanDouble(st, r)
    ELSE scanPlain(st, r)

\* a tokenizer that stops at a line end inside an open quote
lineCompleteInQuotes(st) == ~st.escape

\* readCmd, "if !escape && !doubleQuote && !singleQuote { break }"
lineComplete(st) == ~st.escape /\ ~st.doubleQuote /\ ~st.singleQuote

\* a readCmd that returns the tokens it has when the input ends
readFailedWithTokens(st, e) == [st EXCEPT !.at = "returned"]

\* readCmd returns nil with the error of readln
readFailed(st, e) == [st EXCEPT !.cmd = <<>>, !.err = e, !.at = "failed"]

\* browse has handed no command to execCommand yet
NoWords == [verb |-> <<>>, args |-> <<>>, read |-> <<>>]

InitTok ==
    /\ pc = "ready"
    /\ oneShot = FALSE /\ defaultBucket = X /\ sourceFile = TRUE
    /\ exitCode = -1
    /\ currentBucket = X
    /\ currentPrefix = <<>>
    /\ bkts = {X} /\ objs = EmptyStore
    /\ muts = 0
    /\ cmd = NoWords
    /\ pre = NoSnapshot
    /\ calls = <<>>
    /\ out = <<>>
    /\ err = ""
    /\ listing = NoListing
    /\ \E input \in Inputs :
        rd = [NoRead EXCEPT !.rest = input, !.src = input, !.at = "readln"]
    /\ nf = NoFormat
    /\ osArgs = <<>>

Unread == <<oneShot, defaultBucket, sourceFile, currentBucket, currentPrefix, bkts, objs, muts,
            pre, calls, out, listing, nf, osArgs>>

\* readCmd: "line, err := readln(); if err != nil { return nil, err }"
readCmdReadln ==
    /\ rd.at = "readln"
    /\ LET raw == ReadString(rd.rest)
           taken == [rd EXCEPT !.rest = SubSeq(@, Len(raw) + 1, Len(@))]
       IN  rd' = IF readln(raw).err # "" THEN readFailed(taken, readln(raw).err)
                 ELSE [taken EXCEPT !.line = readln(raw).text, !.at = "scan"]
    /\ UNCHANGED <<pc, exitCode, cmd, err>>
    /\ UNCHANGED Unread

\* readCmd: one iteration of the loop over the runes of the line
readCmdRune ==
    /\ rd.at = "scan"
    /\ rd.line # <<>>
    /\ rd' = [scanRune(rd, Head(rd.line)) EXCEPT !.line = Tail(rd.line)]
    /\ UNCHANGED <<pc, exitCode, cmd, err>>
    /\ UNCHANGED Unread

\* readCmd at the end of a line: it leaves the loop, appends the token in
\* progress and returns, or it appends a line break and reads another line
readCmdLineEnd ==
    /\ rd.at = "scan"
    /\ rd.line = <<>>
    /\ rd' = IF lineComplete(rd)
             THEN [rd EXCEPT !.cmd = IF rd.sb # <<>> THEN Append(@, rd.sb) ELSE @,
                             !.at = "returned"]
             ELSE [rd EXCEPT !.sb = Append(@, "\n"), !.at = "readln"]
    /\ UNCHANGED <<pc, exitCode, cmd, err>>
    /\ UNCHANGED Unread

\* browse() with what readCmd returned: the error ends the loop and main exits
\* with status 1, q and exit end it with status 0, an empty command is
\* ignored, and any other is handed to execCommand, which knows no verb made
\* of Runes; then browse calls readCmd again
browseLoop ==
    /\ pc = "ready"
    /\ rd.at \in {"returned", "failed"}
    /\ LET command == IF rd.cmd = <<>> THEN <<>> ELSE TrimSpace(rd.cmd[1])
           again == [NoRead EXCEPT !.rest = rd.rest, !.src = rd.src, !.at = "readln"]
       IN  IF rd.err # ""
           THEN /\ pc' = "exit" /\ exitCode' = 1
                /\ rd' = [rd EXCEPT !.at = "idle"]
                /\ UNCHANGED <<cmd, err>>
           ELSE IF rd.cmd # <<>> /\ command \in {<<"q">>, <<"e", "x", "i", "t">>}
           THEN /\ pc' = "exit" /\ exitCode' = 0
                /\ rd' = [rd EXCEPT !.at = "idle"]
                /\ UNCHANGED <<cmd, err>>
           ELSE IF rd.cmd # <<>> /\ command # <<>>
           THEN /\ cmd' = [verb |-> command, args |-> Tail(rd.cmd), read |-> <<>>]
                /\ err' = "unknown command"
                /\ rd' = again
                /\ UNCHANGED <<pc, exitCode>>
           ELSE /\ rd' = again
                /\ UNCHANGED <<pc, exitCode, cmd, err>>
    /\ UNCHANGED Unread

TokNext ==
    \/ readCmdReadln
    \/ readCmdRune
    \/ readCmdLineEnd
    \/ browseLoop

\* the process runs on: each step that can be taken is taken
TokSpec == InitTok /\ [][TokNext]_vars /\ WF_vars(TokNext)

(***************************************************************************)
(* The nameFormatter of find (commands.go:621-641) on its own: one call    *)
(* with an object name and a needle, one step for each iteration of its    *)
(* loop.  The builder sb holds the pieces written so far; a process whose  *)
(* builder outgrows its memory is ended by the runtime with status 2.      *)
(***************************************************************************)
MaxName == 3
MaxNeedle == 2
\* the pieces the builder can hold: more than any name of MaxName characters
\* needs with every character highlighted
MaxOutput == 3 * MaxName

NameChars == {"d", "D", "1"}
Names == UNION {[1..n -> NameChars] : n \in 0..MaxName}
Needles == UNION {[1..n -> NameChars] : n \in 0..MaxNeedle}

colorHighlight == "\\033[1;31m"
colorEnd == "\\033[0m"

\* strings.Index(s, substr): the offset of the first occurrence, -1 for none
Index(s, substr) ==
    LET found == {i \in 0..(Len(s) - Len(substr)) : SubSeq(s, i + 1, i + Len(substr)) = substr}
    IN  IF found = {} THEN -1 ELSE CHOOSE i \in found : \A j \in found : i <= j

\* one pass through "for i := 0; i < len(name); { ... }": the test of the
\* loop and its body
nameFormatter(st) ==
    IF ~(st.i < Len(st.name)) THEN [st EXCEPT !.at = "returned"]
    ELSE LET relPos == Index(ToLower(From(st.name, st.i)), ToLower(st.needle))
         IN  IF relPos = -1
             THEN [st EXCEPT !.sb = @ \o From(st.name, st.i), !.at = "returned"]
             ELSE [st EXCEPT
                     !.sb = @ \o SubSeq(st.name, st.i + 1, st.i + relPos)
                              \o <<colorHighlight>>
                              \o SubSeq(st.name, st.i + relPos + 1,
                                        st.i + relPos + Len(st.needle))
                              \o <<colorEnd>>,
                     !.i = @ + relPos + Len(st.needle)]

InitFind ==
    /\ pc = "ready"
    /\ oneShot = TRUE /\ defaultBucket = X /\ sourceFile = TRUE
    /\ exitCode = -1
    /\ currentBucket = X
    /\ currentPrefix = <<>>
    /\ bkts = {X} /\ objs = EmptyStore
    /\ muts = 0
    /\ cmd = NoCmd
    /\ pre = NoSnapshot
    /\ calls = <<>>
    /\ out = <<>>
    /\ err = ""
    /\ listing = NoListing
    /\ rd = NoRead
    /\ \E name \in Names, needle \in Needles :
        nf = [NoFormat EXCEPT !.name = name, !.needle = needle, !.at = "loop"]
    /\ osArgs = <<>>

Unformatted == <<oneShot, defaultBucket, sourceFile, currentBucket, currentPrefix, bkts, objs,
                 muts, cmd, pre, calls, out, err, listing, rd, osArgs>>

\* the loop of nameFormatter runs once more
nameFormatterLoop ==
    /\ nf.at = "loop"
    /\ Len(nf.sb) <= MaxOutput
    /\ nf' = nameFormatter(nf)
    /\ UNCHANGED <<pc, exitCode>>
    /\ UNCHANGED Unformatted

\* the builder has outgrown the memory of the process
outOfMemory ==
    /\ nf.at = "loop"
    /\ Len(nf.sb) > MaxOutput
    /\ nf' = [nf EXCEPT !.at = "out of memory"]
    /\ pc' = "exit"
    /\ exitCode' = 2
    /\ UNCHANGED Unformatted

FindNext == nameFormatterLoop \/ outOfMemory

\* the process runs on: each step that can be taken is taken
FindSpec == InitFind /\ [][FindNext]_vars /\ WF_vars(FindNext)

(***************************************************************************)
(* readArgs (unnamed/part_004:73-159) on its own: the process is started   *)
(* with a command line and main calls readArgs, which returns the target   *)
(* and the command, returns an error, ends the process with status 1, or   *)
(* panics, which ends the process with status 2.                           *)
(***************************************************************************)
MaxOsArgs == 4
Program == <<"s", "3">>
FlagE == <<"-", "e">>
FlagName == <<"-", "-", "n", "a", "m", "e">>
FlagUrl == <<"-", "-", "u", "r", "l">>
FlagAccessKey == <<"-", "-", "a", "c", "c", "e", "s", "s", "-", "k", "e", "y">>
FlagSecretKey == <<"-", "-", "s", "e", "c", "r", "e", "t", "-", "k", "e", "y">>
FlagBucketName == <<"-", "-", "b", "u", "c", "k", "e", "t", "-", "n", "a", "m", "e">>
ConnectionFlags == {FlagName, FlagUrl, FlagAccessKey, FlagSecretKey, FlagBucketName}
\* a flag readArgs has no case for
FlagAll == <<"-", "-", "a", "l", "l">>
\* what a command line is made of: -e, a word, the verb ls, --url, --all
OsWords == {FlagE, <<"k">>, <<"l", "s">>, FlagUrl, FlagAll}
CommandLines == { <<Program>> \o w : w \in UNION {[1..n -> OsWords] : n \in 0..MaxOsArgs} }

\* the locals of readArgs before its loop
NoArgs == [args |-> <<>>, envKey |-> <<>>, argParseMode |-> <<>>, targetName |-> <<>>,
           targetURL |-> <<>>, targetAccessKey |-> <<>>, targetSecretKey |-> <<>>,
           targetBucketName |-> <<>>, panic |-> FALSE]

\* the loop "for i := 1; i < len(os.Args); i++" of readArgs from os.Args[i - 1]
\* on (the sequence a counts from 1)
RECURSIVE readArgsLoop(_, _, _)
readArgsLoop(a, i, st) ==
    IF i > Len(a) THEN st
    ELSE LET mode == st.argParseMode
             plain == [st EXCEPT !.argParseMode = <<>>]
         IN  IF mode = FlagE THEN readArgsLoop(a, i + 1, [plain EXCEPT !.envKey = a[i]])
             ELSE IF mode = FlagName
             THEN readArgsLoop(a, i + 1, [plain EXCEPT !.targetName = a[i]])
             ELSE IF mode = FlagUrl
             THEN readArgsLoop(a, i + 1, [plain EXCEPT !.targetURL = a[i]])
             ELSE IF mode = FlagAccessKey
             THEN readArgsLoop(a, i + 1, [plain EXCEPT !.targetAccessKey = a[i]])
             ELSE IF mode = FlagSecretKey
             THEN readArgsLoop(a, i + 1, [plain EXCEPT !.targetSecretKey = a[i]])
             ELSE IF mode = FlagBucketName
             THEN readArgsLoop(a, i + 1, [plain EXCEPT !.targetBucketName = a[i]])
             ELSE IF mode = <<>>
             THEN IF Len(st.envKey) = 0 /\ a[i] = FlagE
                  THEN readArgsLoop(a, i + 1, [st EXCEPT !.argParseMode = FlagE])
                  ELSE IF HasPrefix(a[i], <<"-", "-">>)
                  THEN readArgsLoop(a, i + 1, [st EXCEPT !.argParseMode = a[i]])
                  ELSE readArgsLoop(a, i + 1, [plain EXCEPT !.args = Append(@, a[i])])
             ELSE [st EXCEPT !.panic = TRUE]

\* how readArgs ends: env is what prepareEnv does with the environment key
readArgs(a, env) ==
    LET st == readArgsLoop(a, 2, NoArgs)
        given == \E f \in {"targetName", "targetURL", "targetAccessKey", "targetSecretKey",
                           "targetBucketName"} : Len(st[f]) > 0
    IN  IF st.panic THEN [end |-> "panic", args |-> <<>>, bucket |-> <<>>]
        ELSE IF given
        THEN IF Len(st.targetURL) = 0 \/ Len(st.targetAccessKey) = 0
                \/ Len(st.targetSecretKey) = 0
             THEN [end |-> "exit", args |-> <<>>, bucket |-> <<>>]
             ELSE [end |-> "return", args |-> st.args, bucket |-> st.targetBucketName]
        ELSE IF Len(st.envKey) = 0 /\ Len(st.args) > 0
        THEN [end |-> "exit", args |-> <<>>, bucket |-> <<>>]
        ELSE IF env = "ok" THEN [end |-> "return", args |-> st.args, bucket |-> X]
        ELSE [end |-> env, args |-> <<>>, bucket |-> <<>>]

InitArgv ==
    /\ pc = "start"
    /\ oneShot = FALSE /\ defaultBucket = <<>> /\ sourceFile = FALSE
    /\ exitCode = -1
    /\ currentBucket = <<>>
    /\ currentPrefix = <<>>
    /\ bkts = {X} /\ objs = EmptyStore
    /\ muts = 0
    /\ cmd = NoCmd
    /\ pre = NoSnapshot
    /\ calls = <<>>
    /\ out = <<>>
    /\ err = ""
    /\ listing = NoListing
    /\ rd = NoRead
    /\ nf = NoFormat
    /\ osArgs \in CommandLines

\* main(), lines 32-37: readArgs returns the target and the command, and main
\* goes on to connect; or main prints the error and exits with status 1; or
\* readArgs ends the process itself
readArgsCalled ==
    /\ pc = "start"
    /\ \E env \in {"ok", "error", "exit"} :
        LET r == readArgs(osArgs, env)
        IN  /\ cmd' = [verb |-> "readArgs", args |-> r.args, read |-> <<>>]
            /\ err' = IF r.end = "return" THEN "" ELSE r.end
            /\ pc' = IF r.end = "return" THEN "connect" ELSE "exit"
            /\ exitCode' = IF r.end = "panic" THEN 2 ELSE IF r.end = "return" THEN exitCode ELSE 1
            /\ oneShot' = (r.end = "return" /\ Len(r.args) > 0)
            /\ defaultBucket' = r.bucket
    /\ UNCHANGED <<sourceFile, currentBucket, currentPrefix, bkts, objs, muts, pre, calls, out,
                   listing, rd, nf, osArgs>>

ArgvSpec == InitArgv /\ [][readArgsCalled]_vars

(***************************************************************************)
(* Properties.  A command that has run leaves its record in cmd, pre,      *)
(* calls, out and err until browse() reads the next line.                  *)
(***************************************************************************)
Ran(verb) == cmd.verb = verb
SessionUnchanged == currentBucket = pre.bucket /\ currentPrefix = pre.prefix
StoreUnchanged == bkts = pre.bkts /\ objs = pre.objs
\* the command took the directory branch: its second call is the recursive listing
TookDirBranch == Len(calls) >= 2 /\ calls[2].op = "ListObjectsV2"
\* the keys of the entered bucket below prefix before the command ran
SourceKeys(prefix) == {k \in KeysOf(pre.objs, pre.bucket) : HasPrefix(k, prefix)}
PrefixSrc == withSep(pre.prefix \o cmd.args[1])
PrefixDst == withSep(pre.prefix \o cmd.args[2])
\* the keys cp and mv write: prefixDst + (source key minus prefixSrc)
DestOf(k) == PrefixDst \o SubSeq(k, Len(PrefixSrc) + 1, Len(k))
DestKeys == {DestOf(k) : k \in SourceKeys(PrefixSrc)}

\* C1: after any sequence of commands, succeeding or failing, the current
\* prefix is the empty string or ends with the separator "/".
PrefixEmptyOrEndsWithSep ==
    currentPrefix = <<>> \/ currentPrefix[Len(currentPrefix)] = Sep

\* cd ".." left a nested directory and the prefix is still that of a directory
PrefixAfterCdUp ==
    /\ Ran("cd") /\ cmd.args = <<DotDot>>
    /\ pre.prefix = <<"p", "/", "q", "/">>
    /\ currentPrefix = <<"p", "/">>

\* C2: in every reachable state from startup on, whenever no bucket is entered
\* the prefix is empty: a non-empty prefix implies a non-empty bucket.
NoBucketNoPrefix == Len(currentBucket) = 0 => currentPrefix = <<>>

\* leave was run inside a directory of a bucket and the session is at the root
LeftFromDirectory ==
    /\ Ran("leave") /\ err = ""
    /\ pre.prefix # <<>>
    /\ currentBucket = <<>> /\ currentPrefix = <<>>

\* rmbucket x read a first line that is not x, or a second that is not DELETE
ConfirmationMismatch ==
    /\ Ran("rmbucket") /\ Len(cmd.args) = 1
    /\ \/ Len(cmd.read) >= 1 /\ cmd.read[1] # cmd.args[1] \o Nl
       \/ Len(cmd.read) >= 2 /\ cmd.read[2] # DELETE \o Nl

\* C3: when the first confirmation of rmbucket x is not exactly x or the second
\* is not exactly DELETE, rmbucket issues no mutating store call, leaves bucket
\* and prefix of the session as they were, and the bucket and all its objects
\* still exist.
RmbucketMismatchMutatesNothing ==
    ConfirmationMismatch =>
        /\ \A i \in 1..Len(calls) : ~Mutating(calls[i])
        /\ SessionUnchanged
        /\ cmd.args[1] \in bkts
        /\ \A k \in KeysOf(pre.objs, cmd.args[1]) :
               /\ <<cmd.args[1], k>> \in DOMAIN objs
               /\ objs[<<cmd.args[1], k>>] = pre.objs[<<cmd.args[1], k>>]
        /\ StoreUnchanged

\* the name of a bucket with objects was confirmed, the second line was not DELETE
RmbucketSecondMismatch ==
    /\ Ran("rmbucket") /\ cmd.args = <<X>>
    /\ Len(cmd.read) = 2 /\ cmd.read[1] = X \o Nl /\ cmd.read[2] = Y \o Nl
    /\ KeysOf(objs, X) # {}
    /\ pre.bucket = X

\* rm name ran without "-r" on a key that stat classifies as a directory
RmDirWithoutFlag ==
    /\ Ran("rm") /\ Len(cmd.args) \in {1, 2}
    /\ Len(cmd.args) = 1 \/ cmd.args[2] # FlagR
    /\ Len(pre.bucket) > 0
    /\ statIn(pre.objs, pre.bkts, pre.bucket, pre.prefix \o cmd.args[1], NoFault).isDir

\* C4: rm name without "-r" (no second argument, or another one) on a key that
\* stat classifies as a directory fails with an error and removes no object.
RmDirWithoutFlagFails ==
    RmDirWithoutFlag =>
        /\ err # ""
        /\ objs = pre.objs
        /\ \A i \in 1..Len(calls) : calls[i].op # "RemoveObject"

\* rm p q on the directory p of {p/1, p/2}: refused, both objects are there
RmDirOtherArgRefused ==
    /\ RmDirWithoutFlag /\ cmd.args = <<P, Q>>
    /\ err = "please use rm -r"
    /\ KeysOf(objs, X) = {<<"p", "/", "1">>, <<"p", "/", "2">>}

\* C5: a successful cp p q of a directory p (as {p/1, p/2}) whose destination
\* keys are none of its source keys leaves in the bucket exactly the keys it
\* held and the destination keys prefixDst + (source key minus prefixSrc), each
\* destination with the content of its source, every other object untouched.
CpDirCopiesEveryObject ==
    (Ran("cp") /\ err = "" /\ TookDirBranch
        /\ (DestKeys \cap SourceKeys(PrefixSrc) = {} \/ PrefixDst = PrefixSrc)) =>
        /\ bkts = pre.bkts
        /\ KeysOf(objs, pre.bucket) = KeysOf(pre.objs, pre.bucket) \cup DestKeys
        /\ \A k \in SourceKeys(PrefixSrc) :
               /\ objs[<<pre.bucket, DestOf(k)>>] = pre.objs[<<pre.bucket, k>>]
               /\ objs[<<pre.bucket, k>>] = pre.objs[<<pre.bucket, k>>]
        /\ \A x \in DOMAIN pre.objs :
               (x[1] # pre.bucket \/ x[2] \notin DestKeys) =>
                   x \in DOMAIN objs /\ objs[x] = pre.objs[x]
        /\ \A x \in DOMAIN objs : x[1] # pre.bucket => x \in DOMAIN pre.objs

\* cp p q over {p/1, p/2}: the bucket holds {p/1, p/2, q/1, q/2}
CpPQDone ==
    /\ Ran("cp") /\ err = "" /\ cmd.args = <<P, Q>> /\ pre.prefix = <<>>
    /\ KeysOf(pre.objs, X) = {<<"p", "/", "1">>, <<"p", "/", "2">>}
    /\ KeysOf(objs, X) = {<<"p", "/", "1">>, <<"p", "/", "2">>,
                          <<"q", "/", "1">>, <<"q", "/", "2">>}
    /\ objs[<<X, <<"q", "/", "1">>>>] = 1 /\ objs[<<X, <<"q", "/", "2">>>>] = 2
    /\ objs[<<X, <<"p", "/", "1">>>>] = 1 /\ objs[<<X, <<"p", "/", "2">>>>] = 2

\* C6: in mv, of a single object or of a directory, every RemoveObject(k) comes
\* right after a successful CopyObject from k; a key whose copy failed is still
\* in the store when mv returns; a successful mv p q of a directory whose
\* destination keys are none of its source keys (as {p/1, p/2}) leaves the
\* destination keys with the sources' contents and none of the source keys.
MvRemovesOnlyAfterCopy ==
    Ran("mv") =>
        /\ \A i \in 1..Len(calls) :
               calls[i].op = "RemoveObject" =>
                   /\ i > 1
                   /\ calls[i - 1].op = "CopyObject" /\ calls[i - 1].ok
                   /\ calls[i - 1].bucket = calls[i].bucket
                   /\ calls[i - 1].key = calls[i].key
        /\ \A i \in 1..Len(calls) :
               (calls[i].op = "CopyObject" /\ ~calls[i].ok) =>
                   /\ <<calls[i].bucket, calls[i].key>> \in DOMAIN objs
                   /\ objs[<<calls[i].bucket, calls[i].key>>]
                          = pre.objs[<<calls[i].bucket, calls[i].key>>]
        /\ (err = "" /\ TookDirBranch /\ DestKeys \cap SourceKeys(PrefixSrc) = {}) =>
               /\ KeysOf(objs, pre.bucket)
                      = (KeysOf(pre.objs, pre.bucket) \ SourceKeys(PrefixSrc)) \cup DestKeys
               /\ \A k \in SourceKeys(PrefixSrc) :
                      objs[<<pre.bucket, DestOf(k)>>] = pre.objs[<<pre.bucket, k>>]

\* mv p q over {p/1, p/2}: the bucket holds {q/1, q/2}, each removal after its copy
MvPQDone ==
    /\ Ran("mv") /\ err = "" /\ cmd.args = <<P, Q>> /\ pre.prefix = <<>>
    /\ KeysOf(pre.objs, X) = {<<"p", "/", "1">>, <<"p", "/", "2">>}
    /\ KeysOf(objs, X) = {<<"q", "/", "1">>, <<"q", "/", "2">>}
    /\ objs[<<X, <<"q", "/", "1">>>>] = 1 /\ objs[<<X, <<"q", "/", "2">>>>] = 2
    /\ Len(calls) = 6 /\ calls[5].op = "CopyObject" /\ calls[6].op = "RemoveObject"

\* the store after the successful calls of cl, applied in order to ob
RECURSIVE StoreAfter(_, _)
StoreAfter(ob, cl) ==
    IF cl = <<>> THEN ob
    ELSE LET c == Head(cl)
         IN  IF c.ok /\ c.op = "CopyObject"
             THEN StoreAfter((<<c.bucket, c.dst>> :> ob[<<c.bucket, c.key>>]) @@ ob, Tail(cl))
             ELSE IF c.ok /\ c.op = "RemoveObject"
             THEN StoreAfter([x \in (DOMAIN ob) \ {<<c.bucket, c.key>>} |-> ob[x]], Tail(cl))
             ELSE StoreAfter(ob, Tail(cl))

\* a call on one object of the batch
ObjectCall(c) == c.op \in {"CopyObject", "RemoveObject"}

\* C7: in recursive rm, cp and mv, a failed store operation on an enumerated
\* object is the last call the command issues (none for a later object, none
\* again for the failed one), the command returns an error, and the store is
\* the one the successful operations before it left: nothing is rolled back.
BatchAbortsOnFirstError ==
    (cmd.verb \in {"rm", "cp", "mv"} /\ TookDirBranch) =>
        /\ \A i \in 1..Len(calls) :
               (ObjectCall(calls[i]) /\ ~calls[i].ok) => (i = Len(calls) /\ err # "")
        /\ objs = StoreAfter(pre.objs, calls)
        /\ bkts = pre.bkts

\* cp p q over {p/1, p/2} whose second copy failed: q/1 is there, q/2 is not
CpAbortedAfterFirst ==
    /\ Ran("cp") /\ cmd.args = <<P, Q>> /\ TookDirBranch
    /\ Len(calls) = 4 /\ calls[3].ok /\ ~calls[4].ok /\ calls[4].op = "CopyObject"
    /\ err # ""
    /\ KeysOf(objs, X) = {<<"p", "/", "1">>, <<"p", "/", "2">>, <<"q", "/", "1">>}

\* the objects the batch transformed before it stopped: copied by cp, copied
\* and removed by mv, fetched by dl, removed by rm -r
Transformed ==
    LET op == IF Ran("cp") THEN "CopyObject"
              ELSE IF Ran("dl") THEN "GetObject" ELSE "RemoveObject"
    IN  {i \in 1..Len(calls) : calls[i].op = op /\ calls[i].ok}

\* a recursive cp, mv, dl or rm -r stopped on an error after it had transformed
\* at least one object
BatchAbortedPartway ==
    /\ cmd.verb \in {"cp", "mv", "dl", "rm"} /\ TookDirBranch
    /\ err # ""
    /\ Transformed # {}

\* a line that reports finished work: the summary of a batch with its count and
\* bytes, or the line of one object that has been dealt with
ReportsCompletion(l) ==
    l.msg \in {"Completed (file)", "Completed (files)", "Completed", "object has been deleted"}

ProgressLines ==
    {i \in 1..Len(out) : out[i].msg \in {"Copy file", "Move file", "downloading file",
                                         "object has been deleted"}}

OnlyNavigationChangesSession ==
    /\ (cmd.verb # "" /\ ~SessionUnchanged) =>
           \/ cmd.verb \in {"enter", "leave", "cd"}
           \/ Ran("rmbucket") /\ cmd.args[1] = pre.bucket
    /\ cmd.verb \in {"help", "ls", "rm", "dl", "ul", "mv", "cp", "touch", "cat", "find",
                     "list", "mkbucket"} => SessionUnchanged

\* C9 as amended: bucket and prefix are changed only by enter, leave, cd, a
\* successful rmbucket of the entered bucket, and a successful mkbucket name
\* while no bucket is entered, which enters the new bucket (bucket = name, the
\* prefix stays empty); help, ls, rm, dl, ul, mv, cp, touch, cat, find, list,
\* and mkbucket while a bucket is entered or when it fails, leave them unchanged.
SessionChangedOnlyByNavigationOrMkbucketAtRoot ==
    /\ (cmd.verb # "" /\ ~SessionUnchanged) =>
           \/ cmd.verb \in {"enter", "leave", "cd"}
           \/ Ran("rmbucket") /\ cmd.args[1] = pre.bucket /\ err = ""
           \/ Ran("mkbucket") /\ err = "" /\ Len(pre.bucket) = 0
    /\ cmd.verb \in {"help", "ls", "rm", "dl", "ul", "mv", "cp", "touch", "cat", "find",
                     "list"} => SessionUnchanged
    /\ Ran("mkbucket") =>
           IF err = "" /\ Len(pre.bucket) = 0
           THEN currentBucket = cmd.args[1] /\ currentPrefix = <<>> /\ pre.prefix = <<>>
           ELSE SessionUnchanged

\* mkbucket y at the root created y and entered it
MkbucketAtRootEnters ==
    /\ Ran("mkbucket") /\ err = "" /\ cmd.args = <<Y>>
    /\ pre.bucket = <<>> /\ Y \notin pre.bkts
    /\ currentBucket = Y /\ currentPrefix = <<>>

\* C10: enter name sets bucket = name and prefix = "" exactly when the store
\* reports that the bucket exists; when it does not exist or the existence
\* check fails, enter returns an error and bucket and prefix keep their
\* values, also when another bucket was entered.
EnterOnlyExistingBucket ==
    (Ran("enter") /\ Len(cmd.args) = 1) =>
        /\ Len(calls) = 1 /\ calls[1].op = "BucketExists" /\ calls[1].bucket = cmd.args[1]
        /\ err = "" <=> (calls[1].ok /\ cmd.args[1] \in pre.bkts)
        /\ err = "" => currentBucket = cmd.args[1] /\ currentPrefix = <<>>
        /\ err # "" => SessionUnchanged
        /\ StoreUnchanged

\* enter y failed inside a directory of bucket x: the session is still there
EnterMissingKeepsLocation ==
    /\ Ran("enter") /\ cmd.args = <<Y>> /\ Y \notin pre.bkts
    /\ err = "bucket does not exist"
    /\ pre.bucket = X /\ pre.prefix = <<"p", "/">>
    /\ currentBucket = X /\ currentPrefix = <<"p", "/">>

\* C11: leave without arguments fails and changes nothing when no bucket is
\* entered; when a bucket is entered it sets bucket and prefix to "".
LeaveNeedsBucketAndResets ==
    (Ran("leave") /\ cmd.args = <<>>) =>
        /\ calls = <<>> /\ StoreUnchanged
        /\ IF Len(pre.bucket) = 0
           THEN err # "" /\ SessionUnchanged
           ELSE err = "" /\ currentBucket = <<>> /\ currentPrefix = <<>>

\* leave was refused at the root
LeaveRefusedAtRoot ==
    /\ Ran("leave") /\ cmd.args = <<>>
    /\ pre.bucket = <<>>
    /\ err = "no bucket entered"
    /\ currentBucket = <<>> /\ currentPrefix = <<>>

\* C12: with no bucket entered, cd name does what enter name does from the same
\* state with the same answer of the store: the same bucket, prefix, store
\* calls and error; on success the prefix is "", the name is not appended.
CdAtRootIsEnter ==
    [][(pc = "ready" /\ cmd'.verb = "cd" /\ Len(cmd'.args) = 1 /\ Len(currentBucket) = 0) =>
           /\ \E flt \in {NoFault, Flt("exists", 1)} :
                  LET r == enter(cmd'.args, flt)
                  IN  /\ r.calls = calls'
                      /\ r.bucket = currentBucket' /\ r.prefix = currentPrefix'
                      /\ r.err = err'
                      /\ r.bkts = bkts' /\ r.objs = objs'
           /\ err' = "" => currentBucket' = cmd'.args[1] /\ currentPrefix' = <<>>]_vars

\* cd x at the root entered bucket x
CdAtRootEntered ==
    /\ Ran("cd") /\ cmd.args = <<X>> /\ pre.bucket = <<>>
    /\ err = "" /\ currentBucket = X /\ currentPrefix = <<>>

\* the prefix p without its last segment
WithoutLastSegment(p) ==
    LET cuts == {0} \cup {i \in 1..(Len(p) - 1) : p[i] = Sep}
    IN  SubSeq(p, 1, CHOOSE i \in cuts : \A j \in cuts : j <= i)

\* C13: with a bucket entered, cd ".." removes exactly the last segment of the
\* prefix ("a/b/" to "a/", "a/" to "", "" stays ""), never changes the bucket,
\* makes no store call and never fails.
CdUpRemovesLastSegment ==
    (Ran("cd") /\ cmd.args = <<DotDot>> /\ Len(pre.bucket) > 0) =>
        /\ err = "" /\ calls = <<>>
        /\ currentBucket = pre.bucket
        /\ currentPrefix = WithoutLastSegment(pre.prefix)
        /\ StoreUnchanged

\* cd ".." in a directory directly below the bucket led to the empty prefix
CdUpToBucketTop ==
    /\ Ran("cd") /\ cmd.args = <<DotDot>>
    /\ pre.bucket = X /\ pre.prefix = <<"p", "/">>
    /\ currentBucket = X /\ currentPrefix = <<>>

\* C14: with a bucket entered, cd name (name not "..") appends name + "/" to the
\* prefix only if stat(prefix + name) reports a directory; if it reports a
\* file or neither, or the listing fails, cd returns an error and bucket and
\* prefix are unchanged.
CdOnlyIntoDirectory ==
    (Ran("cd") /\ Len(cmd.args) = 1 /\ cmd.args[1] # DotDot /\ Len(pre.bucket) > 0) =>
        LET st == statIn(pre.objs, pre.bkts, pre.bucket, pre.prefix \o cmd.args[1], NoFault)
        IN  /\ Len(calls) = 1 /\ calls[1].op = "ListObjectsV2"
            /\ StoreUnchanged
            /\ IF calls[1].ok /\ st.isDir
               THEN /\ err = ""
                    /\ currentBucket = pre.bucket
                    /\ currentPrefix = pre.prefix \o cmd.args[1] \o <<Sep>>
               ELSE err # "" /\ SessionUnchanged
            /\ (calls[1].ok /\ st.isFile) => err = "is a file"
            /\ (calls[1].ok /\ ~st.isFile /\ ~st.isDir) => err = "directory not found"

\* cd 1 inside p/ where p/1 is an object: refused, the prefix is still p/
CdOntoFileRefused ==
    /\ Ran("cd") /\ cmd.args = <<F1>>
    /\ pre.prefix = <<"p", "/">> /\ <<pre.bucket, <<"p", "/", "1">>>> \in DOMAIN pre.objs
    /\ err = "is a file"
    /\ currentPrefix = <<"p", "/">>

\* the key stat was asked about, without one trailing separator
Normalized ==
    LET key == cmd.args[1]
    IN  IF Len(key) > 0 /\ key[Len(key)] = Sep THEN SubSeq(key, 1, Len(key) - 1) ELSE key
\* the store before the command holds an object with exactly the key k
HeldObject(k) == <<pre.bucket, k>> \in DOMAIN pre.objs
\* the store before the command holds an object whose key begins with k + "/":
\* the shallow listing filtered by k then has the entry k + "/"
HeldBelow(k) ==
    \E o \in DOMAIN pre.objs :
        /\ o[1] = pre.bucket
        /\ Len(o[2]) > Len(k)
        /\ SubSeq(o[2], 1, Len(k) + 1) = k \o <<Sep>>

\* C15: stat(key) strips one trailing separator and classifies from the shallow
\* listing filtered by the normalized key: file with the object's size when the
\* entry normalized is listed, directory with size 0 when the entry
\* normalized + "/" is listed, neither otherwise; the entry listed first
\* decides, and that is the object.  (stat of the file p/1, of the marker p/q/
\* as p/q and as p/q/, and of the missing p/x.)
StatClassifies ==
    (Ran("stat") /\ err = "") =>
        LET r == out[1]
        IN  /\ calls[1].key = Normalized
            /\ IF HeldObject(Normalized)
               THEN r.isFile /\ ~r.isDir /\ r.fileSize = pre.objs[<<pre.bucket, Normalized>>]
               ELSE IF HeldBelow(Normalized) \/ HeldObject(Normalized \o <<Sep>>)
               THEN r.isDir /\ ~r.isFile /\ r.fileSize = 0
               ELSE ~r.isFile /\ ~r.isDir /\ r.fileSize = 0

\* stat("p/q/") in a store that holds the file p/1 and the marker p/q/ only
StatOfMarkerWithSeparator ==
    /\ Ran("stat") /\ cmd.args = <<<<"p", "/", "q", "/">>>>
    /\ KeysOf(pre.objs, X) = {<<"p", "/", "1">>, <<"p", "/", "q", "/">>}
    /\ out[1].isDir /\ ~out[1].isFile /\ out[1].fileSize = 0

\* C16: stat never reports a key as both file and directory, whatever the store
\* holds, an object k next to an object k + "/" included; and exists(k) is
\* isFile or isDir.
StatNeverFileAndDir ==
    Ran("stat") =>
        /\ ~(out[1].isFile /\ out[1].isDir)
        /\ out[1].exists = (out[1].isFile \/ out[1].isDir)
        /\ out[1].existsErr = err

\* stat("p/q") in a store that holds the object p/q and the marker p/q/
StatOfKeyHeldBothWays ==
    /\ Ran("stat") /\ cmd.args = <<<<"p", "/", "q">>>>
    /\ HeldObject(<<"p", "/", "q">>) /\ HeldObject(<<"p", "/", "q", "/">>)
    /\ err = ""
    /\ out[1].isFile /\ ~out[1].isDir /\ out[1].exists

\* cd name, rm name -r, cp name dst or mv name dst ran in a bucket, and the
\* listing of its stat succeeded
RanOnKey ==
    /\ Len(pre.bucket) > 0
    /\ \/ Ran("cd") /\ Len(cmd.args) = 1 /\ cmd.args[1] # DotDot
       \/ Ran("rm") /\ Len(cmd.args) = 2 /\ cmd.args[2] = FlagR
       \/ cmd.verb \in {"cp", "mv"} /\ Len(cmd.args) = 2
    /\ Len(calls) >= 1 /\ calls[1].op = "ListObjectsV2" /\ calls[1].ok
\* the key the command was given
GivenKey == pre.prefix \o cmd.args[1]
\* the command took the key for a directory: cd went into it, rm -r, cp and mv
\* listed what is below it
TakenAsDirectory ==
    IF Ran("cd")
    THEN err = "" /\ currentBucket = pre.bucket /\ currentPrefix = GivenKey \o <<Sep>>
    ELSE TookDirBranch /\ calls[2].key = GivenKey \o <<Sep>>

\* C17 as claimed: a key without a marker object is a directory as soon as at
\* least one object key begins with key + "/": cd, rm -r, cp and mv accept a
\* prefix that has children but no marker.
ChildrenMakeDirectory ==
    (RanOnKey /\ HeldBelow(GivenKey) /\ ~HeldObject(GivenKey \o <<Sep>>)) => TakenAsDirectory

\* C17 as amended: a key without a marker object is a directory as soon as at
\* least one object key begins with key + "/" and no object has the key itself
\* (that object is listed first and makes the key a file): cd, rm -r, cp and
\* mv then accept a prefix that has children but no marker.
ChildrenMakeDirectoryUnlessObject ==
    (RanOnKey /\ HeldBelow(GivenKey) /\ ~HeldObject(GivenKey \o <<Sep>>)
        /\ ~HeldObject(GivenKey)) => TakenAsDirectory

\* rm p -r removed p/1 and p/2 of a store without the marker p/
RmOfMarkerlessDirectory ==
    /\ RanOnKey /\ Ran("rm") /\ cmd.args = <<P, FlagR>> /\ pre.prefix = <<>>
    /\ KeysOf(pre.objs, X) = {<<"p", "/", "1">>, <<"p", "/", "2">>}
    /\ err = "" /\ KeysOf(objs, X) = {}

\* the errors with which a check of the arguments or of a precondition rejects
\* rm, cp, mv, touch, mkbucket or rmbucket: bucket required, argument count,
\* the -r flag, validity of the destination key, existence and kind of the source
ValidationErrors ==
    {"no bucket entered", "missing parameter", "too many arguments", "please use rm -r",
     "invalid destination", "object does not exist", "object already exists",
     "bucket does not exist"}

\* C18: no verb fails a validation after it has started mutating the store: when
\* rm, cp, mv, touch, mkbucket or rmbucket is rejected by a check of its
\* arguments or preconditions, it has issued no store-mutating call before.
ValidationBeforeMutation ==
    (cmd.verb \in {"rm", "cp", "mv", "touch", "mkbucket", "rmbucket"}
        /\ err \in ValidationErrors) =>
        \A i \in 1..Len(calls) : ~Mutating(calls[i])

\* the verbs that require an entered bucket
BucketVerbs == {"leave", "rm", "dl", "ul", "mv", "cp", "touch", "cat", "find"}
\* the fewest arguments a verb takes and the number of its labelled positions
MinArgsOf(verb) ==
    CASE verb \in {"help", "leave", "ls"} -> 0
      [] verb \in {"dl", "ul", "mv", "cp"} -> 2
      [] OTHER -> 1
LabelsOf(verb) ==
    CASE verb \in {"help", "leave"} -> 0
      [] verb \in {"rm", "dl", "ul", "mv", "cp", "find"} -> 2
      [] OTHER -> 1
WrongArgCount == Len(cmd.args) < MinArgsOf(cmd.verb) \/ Len(cmd.args) > LabelsOf(cmd.verb)
RefusedWithoutStoreCall == err # "" /\ calls = <<>>

\* C19 as claimed: every verb that requires a bucket returns an error without
\* any store call and without changing the session when no bucket is entered;
\* and every verb returns an error without any store call when it gets fewer
\* arguments than its minimum or more than it has labelled positions.
EveryVerbChecksItsArgs ==
    cmd.verb \in Verbs =>
        /\ (cmd.verb \in BucketVerbs /\ Len(pre.bucket) = 0) =>
                (RefusedWithoutStoreCall /\ SessionUnchanged)
        /\ WrongArgCount => RefusedWithoutStoreCall

\* C19 as amended: every verb that requires a bucket returns an error without
\* any store call and without changing the session when no bucket is entered;
\* and every verb other than help returns an error without any store call when
\* it gets fewer arguments than its minimum or more than it has labelled
\* positions (help takes any arguments and ignores them).
EveryVerbButHelpChecksItsArgs ==
    cmd.verb \in Verbs =>
        /\ (cmd.verb \in BucketVerbs /\ Len(pre.bucket) = 0) =>
                (RefusedWithoutStoreCall /\ SessionUnchanged)
        /\ (WrongArgCount /\ cmd.verb # "help") => RefusedWithoutStoreCall

\* cp with three arguments inside a bucket was refused before any store call
CpWithThreeArgsRefused ==
    /\ Ran("cp") /\ Len(cmd.args) = 3 /\ Len(pre.bucket) > 0
    /\ err = "too many arguments" /\ calls = <<>>
    /\ SessionUnchanged /\ StoreUnchanged

\* the handler that consumed the enumeration has returned
ConsumerReturned == listing.cons = "returned"
\* the goroutine waits to send the error of a request, the channel is full and
\* nobody receives any more
BlockedOnReport ==
    listing.prod = "report" /\ Len(listing.buf) = ChanCap /\ ConsumerReturned

RmbucketConfirmed ==
    /\ Ran("rmbucket") /\ Len(cmd.args) = 1
    /\ cmd.read = <<cmd.args[1] \o Nl, DELETE \o Nl>>
\* the position in calls of the successful removal of the bucket, 0 if there is none
RemoveBucketAt ==
    IF \E i \in 1..Len(calls) : calls[i].op = "RemoveBucket" /\ calls[i].ok
    THEN CHOOSE i \in 1..Len(calls) : calls[i].op = "RemoveBucket" /\ calls[i].ok
    ELSE 0
\* the keys whose removal succeeded before position n of calls
RemovedBefore(n) ==
    {calls[i].key : i \in {j \in 1..(n - 1) : calls[j].op = "RemoveObject" /\ calls[j].ok}}

\* C22: after both confirmations matched, rmbucket x removes every object of x
\* before it removes the bucket; on success the session is reset to root exactly
\* when x was the entered bucket and is unchanged otherwise; when the removal
\* of an object or of the bucket fails, the session is unchanged.
RmbucketEmptiesThenRemoves ==
    RmbucketConfirmed =>
        /\ err = "" =>
            /\ RemoveBucketAt = Len(calls)
            /\ RemovedBefore(RemoveBucketAt) = KeysOf(pre.objs, cmd.args[1])
            /\ bkts = pre.bkts \ {cmd.args[1]}
            /\ KeysOf(objs, cmd.args[1]) = {}
            /\ IF pre.bucket = cmd.args[1]
               THEN currentBucket = <<>> /\ currentPrefix = <<>>
               ELSE SessionUnchanged
        /\ err # "" => (SessionUnchanged /\ RemoveBucketAt = 0 /\ bkts = pre.bkts)

\* rmbucket y, confirmed inside bucket y that held an object, emptied and removed it
RmbucketOfEnteredBucket ==
    /\ RmbucketConfirmed /\ cmd.args = <<Y>> /\ pre.bucket = Y
    /\ KeysOf(pre.objs, Y) # {}
    /\ err = "" /\ Y \notin bkts /\ currentBucket = <<>>

\* the line typed at a confirmation: a line with its line break
TypedLine(raw) == raw # <<>> /\ raw[Len(raw)] = "\n"
\* the user declined rmbucket x: a line was typed at the first confirmation and
\* is not x, or at the second and is not DELETE
ConfirmationDeclined ==
    /\ Ran("rmbucket") /\ Len(cmd.args) = 1
    /\ \/ Len(cmd.read) = 1 /\ TypedLine(cmd.read[1]) /\ cmd.read[1] # cmd.args[1] \o Nl
       \/ Len(cmd.read) = 2 /\ TypedLine(cmd.read[2]) /\ cmd.read[2] # DELETE \o Nl

\* C23: a declined confirmation is an error outcome: when the first or the
\* second confirmation of rmbucket does not match, the command returns an error
\* to the dispatcher, and in one-shot mode the process exits with a non-zero
\* status.
DeclinedConfirmationIsError ==
    ConfirmationDeclined =>
        /\ err # ""
        /\ (pc = "exit" /\ oneShot) => exitCode # 0

\* C24: in the interactive loop a command that returned an error, an unknown
\* verb included, never ends the loop: the next line is read, and the loop ends
\* only at a line read from the ready loop (exit, q or a read error), never as
\* the outcome of a command; in one-shot mode the one command runs exactly once,
\* the process exits after it, and with a non-zero status if it returned an error.
ErrorsNeverEndTheLoop ==
    /\ [][(pc = "done" /\ ~oneShot) => pc' = "ready"]_vars
    /\ [][(~oneShot /\ pc \in {"ready", "done"} /\ pc' = "exit") =>
                (pc = "ready" /\ UNCHANGED <<cmd, calls, err, bkts, objs>>)]_vars
    /\ [](oneShot /\ pc = "ready" => cmd = NoCmd)
    /\ [][(oneShot /\ pc = "ready") => (pc' = "done" /\ cmd' # NoCmd)]_vars
    /\ [][(oneShot /\ pc = "done") =>
                (pc' = "exit" /\ UNCHANGED <<cmd, err, bkts, objs>>
                    /\ exitCode' = (IF err # "" THEN 1 ELSE 0))]_vars

\* the interactive loop reads the next line after an unknown verb was refused
LoopAfterUnknownVerb ==
    /\ ~oneShot /\ pc = "done"
    /\ cmd.verb = UnknownVerb /\ err = "unknown command" /\ calls = <<>>

\* the tokenizer is about to scan the rune Rune
Scanning == rd.at = "scan" /\ rd.line # <<>>
Rune == Head(rd.line)
\* no quote is open and no backslash precedes
PlainMode == ~rd.singleQuote /\ ~rd.doubleQuote /\ ~rd.escape
\* readCmd has returned the argument vector of the input src, its only line
Tokenized(src) == rd.at = "returned" /\ rd.src = src /\ rd.rest = <<>>

\* C25: the tokenizer ends a token only at a space that is outside quotes and
\* not escaped; a space inside quotes or after a backslash goes into the
\* token; the quote characters that open and close a quote are not emitted;
\* quoted and unquoted runs that touch form one token; the tokens are in the
\* order of the input, and the line a "b c" d gives a, b c, d
TokensSplitOnlyAtPlainSpaces ==
    /\ [][Scanning =>
            /\ rd'.cmd # rd.cmd =>
                    /\ Rune = " " /\ PlainMode /\ rd.sb # <<>>
                    /\ rd'.cmd = Append(rd.cmd, rd.sb) /\ rd'.sb = <<>>
            /\ Rune = " " /\ PlainMode /\ rd.sb # <<>> => rd'.cmd = Append(rd.cmd, rd.sb)
            /\ Rune = " " /\ ~PlainMode => rd'.sb = Append(rd.sb, " ")
            /\ Rune \in {"'", "\""} /\ PlainMode => rd'.sb = rd.sb
            /\ Rune = "'" /\ rd.singleQuote => rd'.sb = rd.sb
            /\ Rune = "\"" /\ rd.doubleQuote /\ ~rd.escape => rd'.sb = rd.sb]_vars
    /\ [](Tokenized(QuotedLine) => rd.cmd = <<<<"a">>, <<"b", " ", "c">>, <<"d">>>>)
    /\ [](Tokenized(<<"q", "\\", " ", "q", "\n">>) => rd.cmd = <<<<"q", " ", "q">>>>)
    /\ [](Tokenized(<<"\"", " ", "\"", "q", "\n">>) => rd.cmd = <<<<" ", "q">>>>)
    /\ [](Tokenized(<<"'", "q", "'", "q", "\n">>) => rd.cmd = <<<<"q", "q">>>>)

\* the line a "b c" d has been split into its three tokens
QuotedLineTokenized ==
    Tokenized(QuotedLine) /\ rd.cmd = <<<<"a">>, <<"b", " ", "c">>, <<"d">>>>

\* C26: inside single quotes the backslash has no escape meaning: every
\* character up to the next single quote, backslash and double quote
\* included, is copied literally and the escape flag is never set in that
\* mode; inside double quotes a backslash makes the next character, the
\* double quote included, literal; the tokenizer is never in two of its
\* three modes (single quote, double quote, plain) at once
QuoteModesAreExclusive ==
    /\ [](rd.singleQuote => ~rd.escape)
    /\ [](~(rd.singleQuote /\ rd.doubleQuote))
    /\ [][Scanning /\ rd.singleQuote =>
            /\ ~rd'.escape /\ ~rd'.doubleQuote /\ rd'.cmd = rd.cmd
            /\ Rune # "'" => rd'.singleQuote /\ rd'.sb = Append(rd.sb, Rune)
            /\ Rune = "'" => ~rd'.singleQuote /\ rd'.sb = rd.sb]_vars
    /\ [][Scanning /\ rd.doubleQuote =>
            /\ rd'.cmd = rd.cmd /\ ~rd'.singleQuote
            /\ rd.escape => rd'.sb = Append(rd.sb, Rune) /\ rd'.doubleQuote /\ ~rd'.escape
            /\ ~rd.escape /\ Rune = "\\" => rd'.sb = rd.sb /\ rd'.doubleQuote /\ rd'.escape
            /\ ~rd.escape /\ Rune = "\"" => rd'.sb = rd.sb /\ ~rd'.doubleQuote]_vars
    /\ [](Tokenized(<<"'", "\\", "q", "'", "\n">>) => rd.cmd = <<<<"\\", "q">>>>)
    /\ [](Tokenized(<<"'", "\\", "\"", "'", "\n">>) => rd.cmd = <<<<"\\", "\"">>>>)
    /\ [](Tokenized(<<"\"", "\\", "\"", "\"", "\n">>) => rd.cmd = <<<<"\"">>>>)

\* the line '\q' has given the token \q
BackslashKeptInSingleQuotes ==
    Tokenized(<<"'", "\\", "q", "'", "\n">>) /\ rd.cmd = <<<<"\\", "q">>>>

\* the tokenizer is at the end of the line it scanned
AtLineEnd == rd.at = "scan" /\ rd.line = <<>>

\* C27: at the end of a line at which a single quote or a double quote is
\* open or an escape is pending, the tokenizer appends exactly one line break
\* to the token in progress and reads another line, whose text continues that
\* token; at the first line end at which none of the three holds it stops
\* reading and returns
OpenLineContinues ==
    /\ [][AtLineEnd /\ ~PlainMode =>
            /\ rd'.at = "readln"
            /\ rd'.sb = Append(rd.sb, "\n") /\ rd'.cmd = rd.cmd
            /\ rd'.singleQuote = rd.singleQuote /\ rd'.doubleQuote = rd.doubleQuote
            /\ rd'.rest = rd.rest]_vars
    /\ [][AtLineEnd /\ PlainMode => rd'.at = "returned" /\ rd'.rest = rd.rest]_vars
    /\ [][rd.at = "readln" /\ rd'.at = "scan" => rd'.sb = rd.sb /\ rd'.cmd = rd.cmd]_vars
    /\ [][rd'.at = "returned" => AtLineEnd /\ PlainMode]_vars
    /\ [](Tokenized(<<"'", "q", "\n", "'", "\n">>) => rd.cmd = <<<<"q", "\n">>>>)
    /\ [](Tokenized(<<"\"", "\n", "q", "\"", "\n">>) => rd.cmd = <<<<"\n", "q">>>>)
    /\ [](Tokenized(<<"q", "\\", "\n", "q", "\n">>) => rd.cmd = <<<<"q", "\n", "q">>>>)

\* a quote opened on one line and closed on the next has given one token
\* holding the line break
QuoteClosedOnSecondLine ==
    Tokenized(<<"'", "q", "\n", "'", "\n">>) /\ rd.cmd = <<<<"q", "\n">>>>

\* readCmd asks for a line and the input holds no complete line any more
InputEnded == rd.at = "readln" /\ readln(ReadString(rd.rest)).err # ""

\* C28: an unterminated quote or escape keeps readCmd requesting lines until
\* the input ends; when the input ends there readCmd terminates with the
\* read error and returns no argument vector, so that no partial command is
\* dispatched and browse ends
OpenQuoteAtEndOfInputFails ==
    /\ [][AtLineEnd /\ ~PlainMode => rd'.at = "readln"]_vars
    /\ [][InputEnded => rd'.at = "failed" /\ rd'.cmd = <<>> /\ rd'.err # ""]_vars
    /\ [][rd.at = "failed" =>
            cmd' = cmd /\ err' = err /\ pc' = "exit" /\ exitCode' = 1]_vars
    /\ (~PlainMode /\ rd.at \in {"readln", "scan"}) ~> (rd.at \in {"returned", "failed"})
    /\ (InputEnded /\ ~PlainMode) ~> (pc = "exit" /\ exitCode = 1)

\* the input q 'q ends inside the quote: readCmd has failed and nothing, not
\* even the q read before the quote, was dispatched
FailedInsideQuote ==
    /\ rd.at = "failed" /\ rd.src = <<"q", " ", "'", "q", "\n">>
    /\ rd.singleQuote /\ rd.cmd = <<>> /\ cmd = NoWords /\ pc = "ready"

\* C29: every verb is dispatched to its own handler by the commands map and
\* by the interactive command-line environment; in particular ul invokes the
\* upload handler: an ul issues no other store call than FPutObject, none of
\* the download handler's (StatObject, ListObjectsV2, GetObject), and after
\* an ul that uploaded without error the store holds an object at
\* prefix + dst (the file) or below it (the files of a directory)
UlInvokesUploadHandler ==
    pc = "done" /\ cmd.verb = "ul" =>
        /\ \A i \in DOMAIN calls : calls[i].op = "FPutObject"
        /\ err = "" /\ calls # <<>> /\ Len(cmd.args) = 2 =>
                \E k \in KeysOf(objs, pre.bucket) : HasPrefix(k, pre.prefix \o cmd.args[2])

\* ls or find has run inside a bucket and listed the store
ListedByLsOrFind ==
    /\ pc = "done" /\ cmd.verb \in {"ls", "find"}
    /\ Len(pre.bucket) > 0 /\ calls # <<>>
\* the directory argument of the ls or find that has run, <<>> without one
DirGiven ==
    LET n == IF cmd.verb = "ls" THEN 1 ELSE 2
    IN  IF Len(cmd.args) >= n THEN <<cmd.args[n]>> ELSE <<>>

\* C30: ls dir lists, and find needle dir searches, the objects under
\* currentPrefix + dir + "/", whatever the current prefix is; without dir
\* both list currentPrefix
LsAndFindResolveDir ==
    ListedByLsOrFind =>
        /\ calls[1].op = "ListObjectsV2"
        /\ calls[1].key = IF DirGiven = <<>> THEN pre.prefix
                          ELSE pre.prefix \o DirGiven[1] \o <<Sep>>

\* the completion provider has answered
Completed == pc = "done" /\ cmd.verb = "complete" /\ err = ""
\* the keys of the listing that a provider offers
Offered == {i \in DOMAIN out[1].files :
                out[1].withFiles \/ HasSuffix(out[1].files[i], <<Sep>>)}

\* C31: remote-path completion marks every candidate whose key ends with the
\* separator as non-terminal and every other candidate as terminal; a
\* provider created without files returns only directory candidates; each
\* candidate is a listed key relative to the current prefix, and every
\* listed key that the provider offers is a candidate
CompletionMarksDirectories ==
    Completed =>
        LET cs == out[1].candidates
            os == out[1].options
            keyOf(c) == pre.prefix \o c
        IN  /\ Len(cs) = Cardinality(Offered) /\ Len(os) = Len(cs)
            /\ \A i \in DOMAIN cs :
                /\ \E j \in Offered : out[1].files[j] = keyOf(cs[i].ReplaceString)
                /\ cs[i].IsFinal = ~HasSuffix(keyOf(cs[i].ReplaceString), <<Sep>>)
                /\ cs[i].IsFinal => <<pre.bucket, keyOf(cs[i].ReplaceString)>> \in DOMAIN objs
                /\ ~out[1].withFiles => ~cs[i].IsFinal
                /\ os[i].Replacement = cs[i].ReplaceString
                /\ os[i].IsPartial = ~cs[i].IsFinal
            /\ \A j \in Offered : \E i \in DOMAIN cs :
                    keyOf(cs[i].ReplaceString) = out[1].files[j]

\* in p/ of a store with p/1 and p/q/1 the provider with files has offered
\* the file 1 as terminal and the directory q/ as non-terminal
FileAndDirectoryOffered ==
    /\ Completed /\ out[1].withFiles /\ pre.prefix = P \o <<Sep>> /\ cmd.args = <<<<>>>>
    /\ \E i \in DOMAIN out[1].candidates :
            out[1].candidates[i] = [ReplaceString |-> F1, IsFinal |-> TRUE]
    /\ \E i \in DOMAIN out[1].candidates :
            out[1].candidates[i] = [ReplaceString |-> Q \o <<Sep>>, IsFinal |-> FALSE]

\* rm name -r has run on a directory and returned no error
RemovedDirectory ==
    /\ pc = "done" /\ cmd.verb = "rm" /\ err = ""
    /\ Len(cmd.args) = 2 /\ cmd.args[2] = FlagR /\ TookDirBranch

\* C32: a successful rm name -r on a directory removes exactly the objects
\* whose key begins with currentPrefix + name + "/" and leaves every other
\* object of the bucket as it was, the keys that merely begin with the name
\* included
RecursiveRmRemovesExactlyTheDirectory ==
    RemovedDirectory =>
        LET dir == pre.prefix \o cmd.args[1] \o <<Sep>>
            gone == {x \in DOMAIN pre.objs : x[1] = pre.bucket /\ HasPrefix(x[2], dir)}
        IN  /\ DOMAIN objs = DOMAIN pre.objs \ gone
            /\ \A x \in DOMAIN objs : objs[x] = pre.objs[x]
            /\ bkts = pre.bkts

\* rm p -r at the root of a store with p/1, pq and pq/1 has removed p/1 and
\* kept pq and pq/1
SiblingsSurviveRecursiveRm ==
    /\ RemovedDirectory /\ pre.prefix = <<>> /\ cmd.args[1] = P
    /\ <<X, <<"p", "/", "1">>>> \in DOMAIN pre.objs
    /\ <<X, <<"p", "/", "1">>>> \notin DOMAIN objs
    /\ <<X, <<"p", "q">>>> \in DOMAIN objs
    /\ <<X, <<"p", "q", "/", "1">>>> \in DOMAIN objs

\* touch has run with a name inside a bucket
Touched == pc = "done" /\ cmd.verb = "touch" /\ Len(cmd.args) >= 1 /\ Len(pre.bucket) > 0
TouchKey == pre.prefix \o cmd.args[1]
\* what stat reports for the key of touch in the store before the command
TouchStat == statIn(pre.objs, pre.bkts, pre.bucket, TouchKey, NoFault)

\* C33: touch name creates a zero-byte object at currentPrefix + name only if
\* stat reports neither a file nor a directory for that key; if one exists
\* touch returns an error and overwrites or modifies no object
TouchCreatesOnlyWhatIsAbsent ==
    Touched =>
        /\ TouchStat.isFile \/ TouchStat.isDir => err # "" /\ StoreUnchanged
        /\ <<pre.bucket, TouchKey>> \in DOMAIN pre.objs => err # "" /\ StoreUnchanged
        /\ err # "" => StoreUnchanged
        /\ err = "" =>
            /\ ~TouchStat.isFile /\ ~TouchStat.isDir
            /\ objs = Put(pre.objs, pre.bucket, TouchKey, 0)
            /\ bkts = pre.bkts

\* touch q in p/ of a store that holds p/q/1 was refused and changed nothing
TouchOfDirectoryRefused ==
    /\ Touched /\ cmd.args[1] = Q /\ pre.prefix = P \o <<Sep>>
    /\ <<X, <<"p", "/", "q", "/", "1">>>> \in DOMAIN pre.objs
    /\ TouchStat.isDir /\ err # "" /\ StoreUnchanged

\* mv has run with two arguments and returned no error
Moved == pc = "done" /\ cmd.verb = "mv" /\ Len(cmd.args) = 2 /\ err = ""

\* C34: a successful mv never loses data: after mv src dst without error,
\* of a single object or of a directory, for every source object an object
\* with its content exists at the corresponding destination key, whatever the
\* two arguments are, src = dst included
MvNeverLosesData ==
    Moved =>
        IF TookDirBranch
        THEN \A k \in SourceKeys(PrefixSrc) :
                /\ <<pre.bucket, DestOf(k)>> \in DOMAIN objs
                /\ objs[<<pre.bucket, DestOf(k)>>] = pre.objs[<<pre.bucket, k>>]
        ELSE /\ <<pre.bucket, pre.prefix \o cmd.args[2]>> \in DOMAIN objs
             /\ objs[<<pre.bucket, pre.prefix \o cmd.args[2]>>] =
                    pre.objs[<<pre.bucket, pre.prefix \o cmd.args[1]>>]

\* main has connected and tried to enter the default bucket
Started == pc \notin {"connect", "default"}

\* C35: once the session has started, the current bucket is empty or a bucket
\* of the store: a default bucket that cannot be entered leaves the session
\* at the root, mkbucket enters the bucket it created only at the root, and
\* removing the entered bucket resets the session
CurrentBucketEmptyOrExists ==
    Started => currentBucket = <<>> \/ currentBucket \in bkts

\* the default bucket is not in the store and the session waits at the root
DefaultBucketNotEntered ==
    /\ pc = "ready" /\ cmd = NoCmd
    /\ defaultBucket # <<>> /\ defaultBucket \notin bkts
    /\ err = "bucket does not exist"
    /\ currentBucket = <<>>

\* a line of spaces only, the blank line included
OnlySpaces(src) ==
    /\ src # <<>> /\ src[Len(src)] = "\n"
    /\ \A i \in 1..(Len(src) - 1) : src[i] = " "

\* C36: the tokenizer never emits an empty token, while it scans or when it
\* returns; a blank line, a line of spaces only and a line that holds nothing
\* but "" or '' give the empty argument vector
NoEmptyToken ==
    /\ \A i \in 1..Len(rd.cmd) : rd.cmd[i] # <<>>
    /\ (/\ Tokenized(rd.src)
        /\ OnlySpaces(rd.src) \/ rd.src \in {<<"\"", "\"", "\n">>, <<"'", "'", "\n">>})
       => rd.cmd = <<>>

\* the line "" has been tokenized: no token
EmptyQuotesGiveNoToken == Tokenized(<<"\"", "\"", "\n">>) /\ rd.cmd = <<>>

\* a backslash is pending outside of quotes
EscapePending == rd.escape /\ ~rd.singleQuote /\ ~rd.doubleQuote

\* C37: a backslash escape covers exactly one character: within a line the
\* character after the backslash is written and the escape ends; when the
\* line ends mid-escape in plain mode, the inserted line break is the escaped
\* character and the escape ends with it, so that the first character of the
\* continuation line is read in plain mode: the line \ followed by the
\* line " q" gives the two tokens "line break" and q
EscapeCoversOneCharacter ==
    /\ [][Scanning /\ EscapePending =>
            rd'.sb = Append(rd.sb, Rune) /\ ~rd'.escape]_vars
    /\ [][AtLineEnd /\ EscapePending =>
            rd'.sb = Append(rd.sb, "\n") /\ ~rd'.escape]_vars
    /\ [](Tokenized(<<"\\", "\n", " ", "q", "\n">>) => rd.cmd = <<<<"\n">>, <<"q">>>>)

\* C38: the name highlighter of find terminates for every needle and every
\* object name, the empty needle included: every pass through its loop
\* advances the scan position or leaves the loop, and the call returns
HighlighterTerminates ==
    /\ [][nf.at = "loop" => nf'.at = "returned" \/ nf'.i > nf.i]_vars
    /\ <>(nf.at = "returned")

\* cd has succeeded inside a bucket with a name that is not ".."
CdInto ==
    /\ pc = "done" /\ Ran("cd") /\ Len(cmd.args) = 1 /\ cmd.args[1] # DotDot
    /\ Len(pre.bucket) > 0 /\ err = ""
\* cd ".." has succeeded inside a bucket
CdUp ==
    /\ pc = "done" /\ Ran("cd") /\ cmd.args = <<DotDot>>
    /\ Len(pre.bucket) > 0 /\ err = ""

\* C39: for every directory name d without a separator that cd accepts, cd d
\* followed by cd ".." restores the prefix and leaves the bucket as it was:
\* cd d leads from the prefix x to x + d + "/" in the same bucket, and cd ".."
\* leads from every prefix of the form x + d + "/", x empty or ending with the
\* separator, back to x in the same bucket
CdThenCdUpRestores ==
    /\ CdInto /\ ~HasSep(cmd.args[1]) =>
            /\ currentPrefix = pre.prefix \o cmd.args[1] \o <<Sep>>
            /\ currentBucket = pre.bucket
    /\ CdUp =>
            /\ currentBucket = pre.bucket
            /\ \A n \in 1..(Len(pre.prefix) - 1) :
                  LET x == SubSeq(pre.prefix, 1, Len(pre.prefix) - n - 1)
                      d == SubSeq(pre.prefix, Len(pre.prefix) - n, Len(pre.prefix) - 1)
                  IN  /\ pre.prefix[Len(pre.prefix)] = Sep
                      /\ ~HasSep(d)
                      /\ x = <<>> \/ x[Len(x)] = Sep
                      => currentPrefix = x

\* cd q inside p/ led to p/q/, from where cd ".." leads back
CdIntoNestedDirectory ==
    /\ CdInto /\ cmd.args = <<Q>>
    /\ pre.prefix = <<"p", "/">>
    /\ currentPrefix = <<"p", "/", "q", "/">>

\* the command the claim expects of a command line: every argument but the
\* first pair "-e name" and the connection flags with their values
RECURSIVE CommandOf(_, _, _)
CommandOf(a, i, seenE) ==
    IF i > Len(a) THEN <<>>
    ELSE IF ~seenE /\ a[i] = FlagE THEN CommandOf(a, i + 2, TRUE)
    ELSE IF a[i] \in ConnectionFlags THEN CommandOf(a, i + 2, seenE)
    ELSE <<a[i]>> \o CommandOf(a, i + 1, seenE)

\* C40: readArgs forwards the command unchanged: it never panics, and what it
\* returns as the command is the command line without the first pair
\* "-e name" and without the connection flags and their values, every other
\* argument in its place, a later "-e" included
ReadArgsForwardsTheCommand ==
    cmd.verb = "readArgs" =>
        /\ err # "panic"
        /\ err = "" => cmd.args = CommandOf(osArgs, 2, FALSE)

====
